---- MODULE Spec2Model ----
(***************************************************************************)
(* ubichain: address encoding/validation engine and BIP44 path engine.     *)
(*                                                                         *)
(* Every library entry point is a pure function.  The state machine is a   *)
(* caller that holds one input, applies one entry point to it and keeps    *)
(* the result; an address returned by getAddress can then be altered by    *)
(* the caller and handed to validateAddress of any plugin instance.        *)
(*                                                                         *)
(* Text is a sequence of one-character strings.  JavaScript numbers are    *)
(* decimal numerals (sign and digit sequence) or NaN, because the values   *)
(* around HARDENED_OFFSET = 2^31 do not fit a 32-bit integer.              *)
(***************************************************************************)
EXTENDS Integers, Sequences, FiniteSets, TLC

VARIABLES input, op, callee, ret, held, blockchains, callerOptions, instances

vars == <<input, op, callee, ret, held, blockchains, callerOptions, instances>>

(***************************************************************************)
(* Text helpers (String.prototype methods used by the sources)             *)
(***************************************************************************)

\* the sequence f with its elements written out, so that the elements and not
\* the expression are kept
Listed(f) == <<>> \o f

\* a loop over lo..hi: acc = step[acc, i] for each i in order.  The range is
\* halved so that the nesting of the evaluation stays logarithmic in its size.
RECURSIVE FoldRange(_, _, _, _)
FoldRange(step, acc, lo, hi) ==
  IF lo > hi THEN acc
  ELSE IF lo = hi THEN step[acc, lo]
  ELSE LET mid  == (lo + hi) \div 2
           left == FoldRange(step, acc, lo, mid)
       IN CASE left = left -> FoldRange(step, left, mid + 1, hi)

\* s.startsWith(p)
StartsWith(s, p) ==
  /\ Len(p) <= Len(s)
  /\ \A i \in 1..Len(p) : s[i] = p[i]

\* s.endsWith(p)
EndsWith(s, p) ==
  /\ Len(p) <= Len(s)
  /\ \A i \in 1..Len(p) : s[Len(s) - Len(p) + i] = p[i]

\* s.slice(n) for 0 <= n
SliceFrom(s, n) == IF n >= Len(s) THEN <<>> ELSE SubSeq(s, n + 1, Len(s))

\* s.slice(0, -n) for n > 0
DropLast(s, n) == IF n >= Len(s) THEN <<>> ELSE SubSeq(s, 1, Len(s) - n)

\* s.split(sep) for a one-character separator
RECURSIVE SplitAcc(_, _, _, _)
SplitAcc(s, sep, i, cur) ==
  IF i > Len(s) THEN <<cur>>
  ELSE IF s[i] = sep THEN <<cur>> \o SplitAcc(s, sep, i + 1, <<>>)
  ELSE SplitAcc(s, sep, i + 1, Append(cur, s[i]))

Split(s, sep) == SplitAcc(s, sep, 1, <<>>)

\* parts.join(sep)
RECURSIVE Join(_, _)
Join(parts, sep) ==
  IF Len(parts) = 0 THEN <<>>
  ELSE IF Len(parts) = 1 THEN parts[1]
  ELSE parts[1] \o <<sep>> \o Join(Tail(parts), sep)

DigitChars == <<"0", "1", "2", "3", "4", "5", "6", "7", "8", "9">>

IsDigit(c) == \E d \in 1..10 : DigitChars[d] = c

DigitVal(c) == (CHOOSE d \in 1..10 : DigitChars[d] = c) - 1

(***************************************************************************)
(* JavaScript numbers: NaN or a signed decimal numeral.  mag has no        *)
(* leading zero, zero is <<0>> and is never negative.                      *)
(***************************************************************************)

NaN == [nan |-> TRUE, neg |-> FALSE, mag |-> <<>>]

RECURSIVE StripZeros(_)
StripZeros(m) ==
  IF Len(m) <= 1 THEN (IF Len(m) = 0 THEN <<0>> ELSE m)
  ELSE IF m[1] = 0 THEN StripZeros(Tail(m)) ELSE m

MkNum(neg, m) ==
  LET n == StripZeros(m)
  IN [nan |-> FALSE, neg |-> (neg /\ n # <<0>>), mag |-> n]

Nat2Mag(n) ==
  LET RECURSIVE D(_)
      D(k) == IF k < 10 THEN <<k>> ELSE Append(D(k \div 10), k % 10)
  IN D(n)

\* a small non-negative integer as a number
N(n) == MkNum(FALSE, Nat2Mag(n))

\* -1, 0, 1 as a < b, a = b, a > b on magnitudes
RECURSIVE MagCmpFrom(_, _, _)
MagCmpFrom(a, b, i) ==
  IF i > Len(a) THEN 0
  ELSE IF a[i] < b[i] THEN -1
  ELSE IF a[i] > b[i] THEN 1
  ELSE MagCmpFrom(a, b, i + 1)

MagCmp(a, b) ==
  IF Len(a) < Len(b) THEN -1
  ELSE IF Len(a) > Len(b) THEN 1
  ELSE MagCmpFrom(a, b, 1)

RECURSIVE MagAddC(_, _, _)
MagAddC(a, b, c) ==
  IF Len(a) = 0 /\ Len(b) = 0 THEN (IF c = 0 THEN <<>> ELSE <<c>>)
  ELSE LET da == IF Len(a) = 0 THEN 0 ELSE a[Len(a)]
           db == IF Len(b) = 0 THEN 0 ELSE b[Len(b)]
           s  == da + db + c
           ra == IF Len(a) = 0 THEN <<>> ELSE SubSeq(a, 1, Len(a) - 1)
           rb == IF Len(b) = 0 THEN <<>> ELSE SubSeq(b, 1, Len(b) - 1)
       IN Append(MagAddC(ra, rb, s \div 10), s % 10)

\* a - b for magnitudes with a >= b
RECURSIVE MagSubB(_, _, _)
MagSubB(a, b, br) ==
  IF Len(a) = 0 THEN <<>>
  ELSE LET da == a[Len(a)]
           db == IF Len(b) = 0 THEN 0 ELSE b[Len(b)]
           d  == da - db - br
           ra == SubSeq(a, 1, Len(a) - 1)
           rb == IF Len(b) = 0 THEN <<>> ELSE SubSeq(b, 1, Len(b) - 1)
       IN Append(MagSubB(ra, rb, IF d < 0 THEN 1 ELSE 0), IF d < 0 THEN d + 10 ELSE d)

\* x + y
NumAdd(x, y) ==
  IF x.nan \/ y.nan THEN NaN
  ELSE IF x.neg = y.neg THEN MkNum(x.neg, MagAddC(x.mag, y.mag, 0))
  ELSE IF MagCmp(x.mag, y.mag) >= 0 THEN MkNum(x.neg, MagSubB(x.mag, y.mag, 0))
  ELSE MkNum(y.neg, MagSubB(y.mag, x.mag, 0))

NumNeg(x) == IF x.nan THEN NaN ELSE MkNum(~x.neg, x.mag)

\* x - y
NumSub(x, y) == NumAdd(x, NumNeg(y))

\* x < y (false when either is NaN)
NumLt(x, y) ==
  /\ ~x.nan
  /\ ~y.nan
  /\ IF x.neg # y.neg THEN x.neg
     ELSE IF x.neg THEN MagCmp(x.mag, y.mag) > 0
     ELSE MagCmp(x.mag, y.mag) < 0

\* x >= y (false when either is NaN)
NumGe(x, y) == ~x.nan /\ ~y.nan /\ ~NumLt(x, y)

\* x === y (false when either is NaN)
NumEq(x, y) == ~x.nan /\ ~y.nan /\ x = y

\* String(x), as a template literal prints a number
NumToString(x) ==
  IF x.nan THEN <<"N", "a", "N">>
  ELSE (IF x.neg THEN <<"-">> ELSE <<>>) \o Listed([i \in 1..Len(x.mag) |-> DigitChars[x.mag[i] + 1]])

\* Number.parseInt(s, 10): leading blanks, an optional sign, then the longest
\* run of digits; NaN when there is no digit, anything after the digits ignored
RECURSIVE SkipBlanks(_)
SkipBlanks(s) == IF Len(s) > 0 /\ s[1] = " " THEN SkipBlanks(Tail(s)) ELSE s

RECURSIVE DigitRun(_)
DigitRun(s) ==
  IF Len(s) > 0 /\ IsDigit(s[1]) THEN <<DigitVal(s[1])>> \o DigitRun(Tail(s)) ELSE <<>>

ParseInt(s) ==
  LET t    == SkipBlanks(s)
      sgn  == Len(t) > 0 /\ (t[1] = "-" \/ t[1] = "+")
      body == IF sgn THEN Tail(t) ELSE t
      run  == DigitRun(body)
  IN IF Len(run) = 0 THEN NaN ELSE MkNum(sgn /\ t[1] = "-", run)

(***************************************************************************)
(* BIP32 / SLIP-10 index helpers                                           *)
(***************************************************************************)

\* 0x80_00_00_00
HARDENED_OFFSET == MkNum(FALSE, <<2, 1, 4, 7, 4, 8, 3, 6, 4, 8>>)

isHardenedIndex(index) == NumGe(index, HARDENED_OFFSET)

formatIndex(index) ==
  IF isHardenedIndex(index)
  THEN NumToString(NumSub(index, HARDENED_OFFSET)) \o <<"'">>
  ELSE NumToString(index)

(***************************************************************************)
(* BIP44 path engine                                                       *)
(***************************************************************************)

BIP44_PURPOSE == NumAdd(HARDENED_OFFSET, N(44))

getBIP44Path_PlainCoinType(coinType, account, change, addressIndex) ==
  LET purposeStr  == formatIndex(BIP44_PURPOSE)
      coinTypeStr == formatIndex(coinType)
      accountStr  == formatIndex(NumAdd(HARDENED_OFFSET, account))
  IN <<"m", "/">> \o purposeStr \o <<"/">> \o coinTypeStr \o <<"/">> \o accountStr
       \o <<"/">> \o NumToString(change) \o <<"/">> \o NumToString(addressIndex)

getBIP44Path(coinType, account, change, addressIndex) ==
  LET purposeStr  == formatIndex(BIP44_PURPOSE)
      coinTypeStr == formatIndex(NumAdd(HARDENED_OFFSET, coinType))
      accountStr  == formatIndex(NumAdd(HARDENED_OFFSET, account))
  IN <<"m", "/">> \o purposeStr \o <<"/">> \o coinTypeStr \o <<"/">> \o accountStr
       \o <<"/">> \o NumToString(change) \o <<"/">> \o NumToString(addressIndex)

parseSegment(segment) ==
  IF EndsWith(segment, <<"'">>)
  THEN NumAdd(ParseInt(DropLast(segment, 1)), HARDENED_OFFSET)
  ELSE ParseInt(segment)

Undefined == [t |-> "undefined"]

\* values an entry point hands back: a string, a boolean, or no value yet
Str(text) == [t |-> "str", v |-> text]

Bool(b) == [t |-> "bool", v |-> b]

None == [t |-> "none"]

parseBIP44Path(path) ==
  IF ~StartsWith(path, <<"m", "/">>) THEN Undefined
  ELSE
    LET segments == Split(SliceFrom(path, 2), "/")
    IN IF Len(segments) # 5 THEN Undefined
       ELSE
         LET purpose      == parseSegment(segments[1])
             coinType     == parseSegment(segments[2])
             account      == parseSegment(segments[3])
             change       == parseSegment(segments[4])
             addressIndex == parseSegment(segments[5])
         IN IF ~NumEq(purpose, BIP44_PURPOSE) THEN Undefined
            ELSE IF \/ NumLt(purpose, HARDENED_OFFSET)
                    \/ NumLt(coinType, HARDENED_OFFSET)
                    \/ NumLt(account, HARDENED_OFFSET) THEN Undefined
            ELSE IF \/ (~NumEq(change, N(0)) /\ ~NumEq(change, N(1)))
                    \/ NumGe(change, HARDENED_OFFSET) THEN Undefined
            ELSE IF NumGe(addressIndex, HARDENED_OFFSET) THEN Undefined
            ELSE [t            |-> "record",
                  purpose      |-> NumSub(purpose, HARDENED_OFFSET),
                  coinType     |-> NumSub(coinType, HARDENED_OFFSET),
                  account      |-> NumSub(account, HARDENED_OFFSET),
                  change       |-> change,
                  addressIndex |-> addressIndex]

(***************************************************************************)
(* SLIP-10 (ed25519) derivation wrapper                                    *)
(***************************************************************************)

Throw == [t |-> "throw"]

\* /^(\d+)('|h)?$/ : the digits of a child index, <<>> when it does not match
IndexDigits(part) ==
  LET marked == Len(part) > 0 /\ (part[Len(part)] = "'" \/ part[Len(part)] = "h")
      digits == IF marked THEN DropLast(part, 1) ELSE part
  IN IF Len(digits) > 0 /\ \A i \in 1..Len(digits) : IsDigit(digits[i]) THEN digits ELSE <<>>

\* HDKey.deriveChild(index) of the ed25519 tree: the child's index, or a throw
\* for a non-hardened index
HDKeyDeriveChild(index) ==
  IF NumLt(index, HARDENED_OFFSET) THEN Throw ELSE [t |-> "child", index |-> index]

\* HDKey.derive(path, forceHardened) of the ed25519 tree: the indices of the
\* derived key below the parent, or a throw
RECURSIVE HDKeyDeriveParts(_, _, _)
HDKeyDeriveParts(parts, forceHardened, chain) ==
  IF Len(parts) = 0 THEN [t |-> "key", chain |-> chain]
  ELSE
    LET c      == parts[1]
        digits == IndexDigits(c)
        idx    == ParseInt(digits)
        index  == IF forceHardened \/ c[Len(c)] = "'" THEN NumAdd(idx, HARDENED_OFFSET) ELSE idx
    IN IF Len(digits) = 0 THEN Throw
       ELSE IF NumGe(idx, HARDENED_OFFSET) THEN Throw
       ELSE IF HDKeyDeriveChild(index) = Throw THEN Throw
       ELSE HDKeyDeriveParts(Tail(parts), forceHardened, Append(chain, index))

HDKeyDerive(path, forceHardened) ==
  LET head == IF Len(path) > 0 /\ (path[1] = "m" \/ path[1] = "M")
              THEN (IF Len(path) > 1 /\ path[2] = "'" THEN 2 ELSE 1)
              ELSE 0
  IN IF head = 0 THEN Throw
     ELSE IF Len(path) = head THEN [t |-> "key", chain |-> <<>>]
     ELSE LET rest == IF path[head + 1] = "/" THEN SliceFrom(path, head + 1) ELSE path
          IN HDKeyDeriveParts(Split(rest, "/"), forceHardened, <<>>)

\* the forceHardened argument of a call: "true", "false" or left out
Omitted == "omitted"

\* deriveHDKey(parent, path, forceHardened = true)
deriveHDKey(path, forceHardenedArg) ==
  HDKeyDerive(path, IF forceHardenedArg = Omitted THEN TRUE ELSE forceHardenedArg = "true")

(***************************************************************************)
(* Characters and bytes                                                    *)
(***************************************************************************)

LowerLetters ==
  <<"a", "b", "c", "d", "e", "f", "g", "h", "i", "j", "k", "l", "m",
    "n", "o", "p", "q", "r", "s", "t", "u", "v", "w", "x", "y", "z">>

UpperLetters ==
  <<"A", "B", "C", "D", "E", "F", "G", "H", "I", "J", "K", "L", "M",
    "N", "O", "P", "Q", "R", "S", "T", "U", "V", "W", "X", "Y", "Z">>

\* position of c in seq, 0 when absent
IndexOf(seq, c) ==
  IF \E i \in 1..Len(seq) : seq[i] = c THEN CHOOSE i \in 1..Len(seq) : seq[i] = c ELSE 0

IsLower(c) == IndexOf(LowerLetters, c) > 0

IsUpper(c) == IndexOf(UpperLetters, c) > 0

ToLowerChar(c) == IF IsUpper(c) THEN LowerLetters[IndexOf(UpperLetters, c)] ELSE c

ToUpperChar(c) == IF IsLower(c) THEN UpperLetters[IndexOf(LowerLetters, c)] ELSE c

\* s.toLowerCase(), s.toUpperCase()
ToLower(s) == Listed([i \in 1..Len(s) |-> ToLowerChar(s[i])])

ToUpper(s) == Listed([i \in 1..Len(s) |-> ToUpperChar(s[i])])

\* charCodeAt of the characters that occur in the addresses
AsciiCode(c) ==
  IF IsDigit(c) THEN 48 + DigitVal(c)
  ELSE IF IsUpper(c) THEN 64 + IndexOf(UpperLetters, c)
  ELSE IF IsLower(c) THEN 96 + IndexOf(LowerLetters, c)
  ELSE IF c = "_" THEN 95
  ELSE IF c = " " THEN 32
  ELSE 33

HexDigits ==
  <<"0", "1", "2", "3", "4", "5", "6", "7", "8", "9", "a", "b", "c", "d", "e", "f">>

\* [0-9a-fA-F]
IsHexChar(c) == IndexOf(HexDigits, ToLowerChar(c)) > 0

\* bytesToHex
bytesToHex(bytes) ==
  Listed([k \in 1..(2 * Len(bytes)) |->
     IF k % 2 = 1 THEN HexDigits[(bytes[(k + 1) \div 2] \div 16) + 1]
     ELSE HexDigits[(bytes[k \div 2] % 16) + 1]])

(***************************************************************************)
(* Hash collaborators.  The digests are outside the engine; each is a      *)
(* fixed function of its input.  A public key is identified by key.id and  *)
(* every digest of key material is a function of the hash, the key and the *)
(* position; key 0 hashes to all 0x00 bytes and key 1 to all 0xff bytes,   *)
(* the two ends of the range of an encoded number.                         *)
(***************************************************************************)

Salt ==
  [keccak256 |-> 1, hash160 |-> 2, hash160script |-> 3, sha3 |-> 4,
   blake2b256 |-> 5, blake2b224 |-> 6, pubkey |-> 7]

Digest(salt, id, n) ==
  Listed([j \in 1..n |->
     IF id = 0 THEN 0
     ELSE IF id = 1 THEN 255
     ELSE (id * 37 + salt * 59 + j * j * 7 + j * 101) % 256])

TextCode(s) ==
  FoldRange([code \in Nat, j \in 1..Len(s) |-> (j * AsciiCode(s[j]) + code) % 4096],
            0, 1, Len(s))

\* keccak_256 yields 32 bytes, 64 hex digits
KeccakHexLen == 64

\* the hex digits (0..15) of keccak_256 of the text s
Keccak256HexOfText(s) ==
  LET code == TextCode(s)
  IN Listed([i \in 1..KeccakHexLen |-> ((code + 5) * (i + 2) + (i - 1) * (i - 1) * 3) % 16])

(***************************************************************************)
(* EVM addresses and the EIP-55 checksum                                   *)
(***************************************************************************)

toChecksumAddress(address) ==
  LET lowercaseAddress == ToLower(address)
      addressHash == Keccak256HexOfText(lowercaseAddress)
  IN IF Len(lowercaseAddress) > KeccakHexLen THEN Throw
     ELSE Str(Listed([i \in 1..Len(lowercaseAddress) |->
                IF addressHash[i] >= 8
                THEN ToUpperChar(lowercaseAddress[i])
                ELSE lowercaseAddress[i]]))

\* public keys: the curve, the byte length of the encoding and the key's identity
CompressedLen == 33

UncompressedLen == 65

EvmAddressBytes == 20

evmGenerateAddress(keyPublic) ==
  IF keyPublic.len # CompressedLen /\ keyPublic.len # UncompressedLen THEN Throw
  ELSE LET addressBytes == Digest(Salt.keccak256, keyPublic.id, EvmAddressBytes)
           checksummed  == toChecksumAddress(bytesToHex(addressBytes))
       IN IF checksummed = Throw THEN Throw ELSE Str(<<"0", "x">> \o checksummed.v)

EvmAddressLen == 42

evmValidateAddress_NoCaseShortcut(address) ==
  IF ~StartsWith(address, <<"0", "x">>) THEN Bool(FALSE)
  ELSE IF Len(address) # EvmAddressLen THEN Bool(FALSE)
  ELSE IF ~(\A i \in 3..Len(address) : IsHexChar(address[i])) THEN Bool(FALSE)
  ELSE LET addressWithoutPrefix == SliceFrom(address, 2)
           checksummed == toChecksumAddress(addressWithoutPrefix)
       IN IF checksummed = Throw THEN Throw
          ELSE Bool(checksummed.v = addressWithoutPrefix)

evmValidateAddress_AnyCase(address) ==
  IF ~StartsWith(address, <<"0", "x">>) THEN Bool(FALSE)
  ELSE IF Len(address) # EvmAddressLen THEN Bool(FALSE)
  ELSE Bool(\A i \in 3..Len(address) : IsHexChar(address[i]))

evmValidateAddress(address) ==
  IF ~StartsWith(address, <<"0", "x">>) THEN Bool(FALSE)
  ELSE IF Len(address) # EvmAddressLen THEN Bool(FALSE)
  ELSE IF ~(\A i \in 3..Len(address) : IsHexChar(address[i])) THEN Bool(FALSE)
  ELSE LET addressWithoutPrefix == SliceFrom(address, 2)
       IN IF \/ addressWithoutPrefix = ToLower(addressWithoutPrefix)
             \/ addressWithoutPrefix = ToUpper(addressWithoutPrefix)
          THEN Bool(TRUE)
          ELSE LET checksummed == toChecksumAddress(addressWithoutPrefix)
               IN IF checksummed = Throw THEN Throw
                  ELSE Bool(checksummed.v = addressWithoutPrefix)

\* options?.network || 'mainnet'
NetworkOf(options) == IF options = "none" THEN "mainnet" ELSE options

createEVMBlockchain(name, options) ==
  [name |-> name, network |-> NetworkOf(options)]

(***************************************************************************)
(* Inputs of the path engine                                               *)
(***************************************************************************)

\* at most this many segments in a path handed to parseBIP44Path
MaxSegments == 6

\* at most this many child indices in a path handed to deriveHDKey
MaxDeriveDepth == 3

\* 2^31 - 1, the largest legal index
MaxIndex == MkNum(FALSE, <<2, 1, 4, 7, 4, 8, 3, 6, 4, 7>>)

PathArgs ==
  LET IndexValues == {N(0), N(1), N(60), N(1815), MaxIndex}
  IN [kind : {"pathArgs"}, coinType : IndexValues, account : IndexValues,
      change : {N(0), N(1)}, addressIndex : IndexValues]

\* five segments of every kind, a valid path cut short or extended, and the
\* prefixes other than "m/"
PathInputs ==
  LET PurposeSegs ==
        { <<"4", "4", "'">>, <<"4", "4">>, <<"4", "5", "'">>,
          <<"2", "1", "4", "7", "4", "8", "3", "6", "9", "2">>, <<"x", "'">> }
      CoinSegs ==
        { <<"0", "'">>, <<"6", "0", "'">>, <<"0">>, <<"x">>, <<"x", "'">>,
          <<"2", "1", "4", "7", "4", "8", "3", "6", "4", "8">>, <<"-", "1", "'">> }
      AccountSegs == { <<"0", "'">>, <<"1">>, <<"y", "'">>, <<>> }
      ChangeSegs ==
        { <<"0">>, <<"1">>, <<"2">>, <<"0", "'">>, <<"1", "'">>, <<"z">>, <<"1", "z">> }
      IndexSegs ==
        { <<"0">>, <<"5">>, <<"0", "'">>, <<"w">>, <<"-", "3">>,
          <<"2", "1", "4", "7", "4", "8", "3", "6", "4", "8">> }
      PathPrefixes == { <<"m", "/">>, <<"M", "/">>, <<"/">>, <<>> }
      FiveSegments ==
        { <<p, c, a, ch, i>> : p \in PurposeSegs, c \in CoinSegs, a \in AccountSegs,
                               ch \in ChangeSegs, i \in IndexSegs }
      full == [k \in 1..MaxSegments |->
                 IF k = 1 THEN <<"4", "4", "'">>
                 ELSE IF k \in {2, 3} THEN <<"0", "'">> ELSE <<"0">>]
      OtherSegmentCounts == { SubSeq(full, 1, n) : n \in (1..MaxSegments) \ {5} }
      PathTexts ==
        { <<"m", "/">> \o Join(segs, "/") : segs \in FiveSegments \cup OtherSegmentCounts }
        \cup { pre \o Join(<<p, <<"0", "'">>, <<"0", "'">>, <<"0">>, <<"0">>>>, "/") :
                 pre \in PathPrefixes, p \in PurposeSegs }
  IN [kind : {"path"}, text : PathTexts]

RECURSIVE DerivePaths(_)
DerivePaths(n) ==
  IF n = 0 THEN { <<"m">> }
  ELSE LET shorter == DerivePaths(n - 1)
       IN shorter \cup { p \o <<"/">> \o s : p \in { q \in shorter : Len(Split(q, "/")) = n },
                                            s \in { <<"0", "'">>, <<"0">>, <<"4", "4", "'">>, <<"1">>, <<"x">> } }

DeriveInputs ==
  [kind : {"derive"}, path : DerivePaths(MaxDeriveDepth), force : {Omitted, "true", "false"}]

(***************************************************************************)
(* Base58 and Base58Check (base58 and base58check(sha256) of @scure/base,  *)
(* called by the encoding utilities)                                       *)
(***************************************************************************)

Base58Alphabet ==
  <<"1", "2", "3", "4", "5", "6", "7", "8", "9",
    "A", "B", "C", "D", "E", "F", "G", "H", "J", "K", "L", "M", "N", "P", "Q",
    "R", "S", "T", "U", "V", "W", "X", "Y", "Z",
    "a", "b", "c", "d", "e", "f", "g", "h", "i", "j", "k", "m", "n", "o", "p",
    "q", "r", "s", "t", "u", "v", "w", "x", "y", "z">>

Zeros(n) == Listed([i \in 1..n |-> 0])

LeadingZeros(digits) ==
  IF \A i \in 1..Len(digits) : digits[i] = 0 THEN Len(digits)
  ELSE (CHOOSE i \in 1..Len(digits) : digits[i] # 0 /\ \A j \in 1..(i - 1) : digits[j] = 0) - 1

\* one pass of convertRadix: the digits (base from, most significant first)
\* divided by to; q is the quotient without its leading zeros, r the remainder
LongDivide(digits, from, to) ==
  FoldRange([pass \in [q : Seq(Nat), r : Nat], i \in 1..Len(digits) |->
              LET digitBase == from * pass.r + digits[i]
                  rounded   == digitBase \div to
              IN [q |-> IF pass.q = <<>> /\ rounded = 0 THEN pass.q ELSE Append(pass.q, rounded),
                  r |-> digitBase % to]],
            [q |-> <<>>, r |-> 0], 1, Len(digits))

\* the passes of convertRadix, at least one: each pass puts its remainder in
\* front of the result and goes on with its quotient until that is empty.
\* The result has at most two digits for each digit of the input.
RadixDigits(digits, from, to) ==
  FoldRange([st \in [digits : Seq(Nat), res : Seq(Nat), done : BOOLEAN],
              k \in 1..(2 * Len(digits)) |->
              IF st.done THEN st
              ELSE LET pass == LongDivide(st.digits, from, to)
                   IN [digits |-> pass.q, res |-> <<pass.r>> \o st.res, done |-> pass.q = <<>>]],
            [digits |-> digits, res |-> <<>>, done |-> FALSE], 1, 2 * Len(digits)).res

\* convertRadix(data, from, to): leading zeros are kept one for one
convertRadix(data, from, to) ==
  IF Len(data) = 0 THEN <<>>
  ELSE LET zeros == LeadingZeros(data)
       IN IF zeros = Len(data) THEN Zeros(zeros)
          ELSE Zeros(zeros) \o RadixDigits(SliceFrom(data, zeros), from, to)

\* base58.encode(bytes)
base58Encode(bytes) ==
  LET digits == convertRadix(bytes, 256, 58)
  IN Listed([i \in 1..Len(digits) |-> Base58Alphabet[digits[i] + 1]])

\* base58.decode(text); throws for a character outside the alphabet
base58Decode(text) ==
  IF \E i \in 1..Len(text) : IndexOf(Base58Alphabet, text[i]) = 0 THEN Throw
  ELSE [t |-> "bytes",
        v |-> convertRadix(Listed([i \in 1..Len(text) |-> IndexOf(Base58Alphabet, text[i]) - 1]), 58, 256)]

BytesCode(bytes) ==
  FoldRange([code \in Nat, k \in 1..Len(bytes) |->
              LET j == Len(bytes) + 1 - k
              IN ((j + 2) * (bytes[j] + 1) + 31 * code) % 65521],
            7, 1, Len(bytes))

ChecksumLen == 4

\* sha256(sha256(data)).slice(0, 4)
Sha256d4(data) ==
  LET code == BytesCode(data)
  IN Listed([j \in 1..ChecksumLen |-> (code * (j + 1) + 151 + j * 17) % 256])

\* base58check(sha256).encode(data)
encodeBase58Check(data) == base58Encode(data \o Sha256d4(data))

\* a checksum decoder that checks the four bytes and does not cut them off
checksumDecode_KeepChecksum(data) ==
  IF data = Throw THEN Throw
  ELSE LET payload == DropLast(data.v, ChecksumLen)
       IN IF SliceFrom(data.v, Len(payload)) # Sha256d4(payload) THEN Throw
          ELSE [t |-> "bytes", v |-> data.v]

\* checksum(4, sha256).decode(data) of base58check: the payload before the
\* last four bytes; throws when they are not the checksum of the payload
checksumDecode(data) ==
  IF data = Throw THEN Throw
  ELSE LET payload     == DropLast(data.v, ChecksumLen)
           oldChecksum == SliceFrom(data.v, Len(payload))
           newChecksum == Sha256d4(payload)
       IN IF \E i \in 1..ChecksumLen :
               i > Len(oldChecksum) \/ newChecksum[i] # oldChecksum[i]
          THEN Throw
          ELSE [t |-> "bytes", v |-> payload]

\* base58check(sha256).decode(address): throws for a bad character or checksum
decodeBase58Check(address) == checksumDecode(base58Decode(address))

\* JavaScript values handed to validateBase58Check in place of a string
NonStrings == { [t |-> "undefined"], [t |-> "null"], [t |-> "number"], [t |-> "object"] }

NoPrefix == <<>>

MinAddressLen == 26

MaxAddressLen == 35

DefaultExpectedLength == 21

validateBase58Check_NoTry(value, bytesVersion, expectedPrefix, expectedLength) ==
  IF value.t # "str" \/ value.v = <<>> THEN Bool(FALSE)
  ELSE IF expectedPrefix # NoPrefix /\ ~StartsWith(value.v, expectedPrefix) THEN Bool(FALSE)
  ELSE IF Len(value.v) < MinAddressLen \/ Len(value.v) > MaxAddressLen THEN Bool(FALSE)
  ELSE LET decoded == decodeBase58Check(value.v)
       IN IF decoded = Throw THEN Throw
          ELSE IF Len(decoded.v) # expectedLength THEN Bool(FALSE)
          ELSE IF Len(decoded.v) = 0 \/ decoded.v[1] # bytesVersion THEN Bool(FALSE)
          ELSE Bool(TRUE)

\* validateBase58Check(value, bytesVersion, expectedPrefix?, expectedLength = 21)
validateBase58Check(value, bytesVersion, expectedPrefix, expectedLength) ==
  IF value.t # "str" \/ value.v = <<>> THEN Bool(FALSE)
  ELSE IF expectedPrefix # NoPrefix /\ ~StartsWith(value.v, expectedPrefix) THEN Bool(FALSE)
  ELSE IF Len(value.v) < MinAddressLen \/ Len(value.v) > MaxAddressLen THEN Bool(FALSE)
  ELSE \* try { const decoded = ...; true unless a check fails } catch { false }
       Bool(\E decoded \in {decodeBase58Check(value.v)} :
              /\ decoded # Throw
              /\ Len(decoded.v) = expectedLength
              /\ Len(decoded.v) > 0
              /\ decoded.v[1] = bytesVersion)

(***************************************************************************)
(* Bech32 (bech32 of @scure/base, called by the SegWit utilities)          *)
(***************************************************************************)

Bech32Alphabet ==
  <<"q", "p", "z", "r", "y", "9", "x", "8", "g", "f", "2", "t", "v", "d", "w", "0",
    "s", "3", "j", "n", "5", "4", "k", "h", "c", "e", "6", "m", "u", "a", "7", "l">>

\* the words pushed while pos >= to
RECURSIVE EmitWords(_, _, _, _)
EmitWords(carry, pos, to, res) ==
  IF pos < to THEN [res |-> res, pos |-> pos]
  ELSE EmitWords(carry, pos - to, to, Append(res, (carry \div (2 ^ (pos - to))) % (2 ^ (to))))

\* convertRadix2(data, from, to, padding); throws for a word out of range and,
\* without padding, for excess or non-zero padding
convertRadix2Loop(data, from, to) ==
  FoldRange([st \in [carry : Nat, pos : Nat, res : Seq(Nat), thrown : BOOLEAN],
              i \in 1..Len(data) |->
              IF st.thrown \/ data[i] >= (2 ^ (from)) THEN [st EXCEPT !.thrown = TRUE]
              ELSE LET shifted == st.carry * (2 ^ (from)) + data[i]
                       emitted == EmitWords(shifted, st.pos + from, to, st.res)
                   IN [carry |-> shifted % (2 ^ (emitted.pos)), pos |-> emitted.pos,
                       res |-> emitted.res, thrown |-> FALSE]],
            [carry |-> 0, pos |-> 0, res |-> <<>>, thrown |-> FALSE], 1, Len(data))

convertRadix2(data, from, to, padding) ==
  LET st   == convertRadix2Loop(data, from, to)
      last == (st.carry * (2 ^ (to - st.pos))) % (2 ^ (to))
  IN IF st.thrown THEN Throw
     ELSE IF ~padding /\ st.pos >= from THEN Throw
     ELSE IF ~padding /\ last > 0 THEN Throw
     ELSE IF padding /\ st.pos > 0 THEN [t |-> "words", v |-> Append(st.res, last)]
     ELSE [t |-> "words", v |-> st.res]

\* bech32.toWords(bytes)
toWords(bytes) == convertRadix2(bytes, 8, 5, TRUE).v

\* bech32.fromWordsUnsafe(words): undefined where fromWords throws
fromWordsUnsafe(words) ==
  LET data == convertRadix2(words, 5, 8, FALSE)
  IN IF data = Throw THEN Undefined ELSE [t |-> "bytes", v |-> data.v]

\* a ^ b of two 5-bit values, at [a + 1][b + 1]
Xor5Table ==
  LET Xor5(a, b) ==
        ((a + b) % 2)
        + 2 * (((a \div 2) + (b \div 2)) % 2)
        + 4 * (((a \div 4) + (b \div 4)) % 2)
        + 8 * (((a \div 8) + (b \div 8)) % 2)
        + 16 * (((a \div 16) + (b \div 16)) % 2)
  IN Listed([a \in 1..32 |-> Listed([b \in 1..32 |-> Xor5(a - 1, b - 1)])])

\* a ^ b of two 30-bit values, five bits at a time
Xor(a, b) ==
  Xor5Table[(a % 32) + 1][(b % 32) + 1]
  + 32 * Xor5Table[((a \div 32) % 32) + 1][((b \div 32) % 32) + 1]
  + 1024 * Xor5Table[((a \div 1024) % 32) + 1][((b \div 1024) % 32) + 1]
  + 32768 * Xor5Table[((a \div 32768) % 32) + 1][((b \div 32768) % 32) + 1]
  + 1048576 * Xor5Table[((a \div 1048576) % 32) + 1][((b \div 1048576) % 32) + 1]
  + 33554432 * Xor5Table[((a \div 33554432) % 32) + 1][((b \div 33554432) % 32) + 1]

\* 0x3b6a57b2, 0x26508e6d, 0x1ea119fa, 0x3d4233dd, 0x2a1462b3
POLYMOD_GENERATORS == <<996825010, 642813549, 513874426, 1027748829, 705979059>>

RECURSIVE XorGenerators(_, _, _)
XorGenerators(chk, b, i) ==
  IF i > Len(POLYMOD_GENERATORS) THEN chk
  ELSE XorGenerators(IF (b \div (2 ^ (i - 1))) % 2 = 1 THEN Xor(chk, POLYMOD_GENERATORS[i]) ELSE chk,
                     b, i + 1)

bech32Polymod(pre) == XorGenerators((pre % 33554432) * 32, pre \div 33554432, 1)

\* for (v of values) chk = bech32Polymod(chk) ^ v
PolymodFold(chk, values) ==
  FoldRange([c \in Nat, i \in 1..Len(values) |-> Xor(bech32Polymod(c), values[i])],
            chk, 1, Len(values))

BECH32_CONST == 1

bechChecksum_Constant(prefix, words, encodingConst) ==
  IF \E i \in 1..Len(prefix) : AsciiCode(prefix[i]) < 33 \/ AsciiCode(prefix[i]) > 126
  THEN Throw
  ELSE Str(Listed([k \in 1..6 |-> Bech32Alphabet[(encodingConst % 32) + 1]]))

\* bechChecksum(prefix, words, encodingConst): the six checksum characters;
\* throws for a prefix character outside 33..126
bechChecksum(prefix, words, encodingConst) ==
  IF \E i \in 1..Len(prefix) : AsciiCode(prefix[i]) < 33 \/ AsciiCode(prefix[i]) > 126
  THEN Throw
  ELSE \* chk = bech32Polymod(chk) ^ (c >> 5) for the prefix, chk = bech32Polymod(chk),
       \* chk = bech32Polymod(chk) ^ (c & 0x1f) for the prefix, then the words, then
       \* six times chk = bech32Polymod(chk): a step without a value xors 0
       LET high == Listed([i \in 1..Len(prefix) |-> AsciiCode(prefix[i]) \div 32])
           low  == Listed([i \in 1..Len(prefix) |-> AsciiCode(prefix[i]) % 32])
           chk  == Xor(PolymodFold(1, high \o <<0>> \o low \o words \o Zeros(6)), encodingConst)
       IN Str(Listed([k \in 1..6 |-> Bech32Alphabet[((chk \div (2 ^ (5 * (6 - k)))) % 32) + 1]]))

MaxBech32Len == 90

\* bech32.encode(prefix, words)
bech32Encode(prefix, words) ==
  IF Len(prefix) = 0 \/ Len(prefix) + 7 + Len(words) > MaxBech32Len THEN Throw
  ELSE LET lowered == ToLower(prefix)
           sum     == bechChecksum(lowered, words, BECH32_CONST)
       IN IF sum = Throw THEN Throw
          ELSE Str(lowered \o <<"1">>
                   \o Listed([i \in 1..Len(words) |-> Bech32Alphabet[words[i] + 1]]) \o sum.v)

\* str.lastIndexOf(c), counted from 1; 0 when absent
LastIndexOf(str, c) ==
  IF \E i \in 1..Len(str) : str[i] = c
  THEN CHOOSE i \in 1..Len(str) : str[i] = c /\ \A j \in (i + 1)..Len(str) : str[j] # c
  ELSE 0

\* bech32.decode(str)
bech32Decode(str) ==
  IF Len(str) < 8 \/ Len(str) > MaxBech32Len THEN Throw
  ELSE LET lowered  == ToLower(str)
           sepIndex == LastIndexOf(lowered, "1")
       IN IF str # lowered /\ str # ToUpper(str) THEN Throw
          ELSE IF sepIndex <= 1 THEN Throw
          ELSE LET prefix == SubSeq(lowered, 1, sepIndex - 1)
                   data   == SliceFrom(lowered, sepIndex)
               IN IF Len(data) < 6 THEN Throw
                  ELSE IF \E i \in 1..Len(data) : IndexOf(Bech32Alphabet, data[i]) = 0 THEN Throw
                  ELSE LET words == Listed([i \in 1..(Len(data) - 6) |->
                                       IndexOf(Bech32Alphabet, data[i]) - 1])
                       IN \* !data.endsWith(sum), or bechChecksum throws
                          IF Str(SliceFrom(data, Len(data) - 6))
                               # bechChecksum(prefix, words, BECH32_CONST) THEN Throw
                          ELSE [t |-> "decoded", prefix |-> prefix, words |-> words]

\* bech32.decodeUnsafe(str): undefined where decode throws
bech32DecodeUnsafe(str) ==
  LET decoded == bech32Decode(str) IN IF decoded = Throw THEN Undefined ELSE decoded

(***************************************************************************)
(* Address utilities                                                       *)
(***************************************************************************)

\* hexToBytes(keyPublic)
KeyBytes(keyPublic) == Digest(Salt.pubkey, keyPublic.id, keyPublic.len)

Hash160Len == 20

\* RIPEMD160(SHA256(bytes of the key))
hash160(keyPublic) == Digest(Salt.hash160, keyPublic.id, Hash160Len)

\* hash160 of the redeem script OP_0 <hash160(key)>
hash160RedeemScript(keyPublic) == Digest(Salt.hash160script, keyPublic.id, Hash160Len)

addSchemeByte(data, schemeByte, prepend) ==
  IF prepend THEN <<schemeByte>> \o data ELSE Append(data, schemeByte)

createVersionedHash(hash, bytesVersion) == addSchemeByte(hash, bytesVersion, TRUE)

createPrefixedAddress(hash, prefix) == prefix \o bytesToHex(hash)

generateAddressLegacy(keyPublic, bytesVersion) ==
  Str(encodeBase58Check(createVersionedHash(hash160(keyPublic), bytesVersion)))

validateAddressLegacy_Prefix1(address, bytesVersion) ==
  validateBase58Check(Str(address), bytesVersion, <<"1">>, DefaultExpectedLength)

validateAddressLegacy(address, bytesVersion) ==
  validateBase58Check(Str(address), bytesVersion,
                      IF bytesVersion = 0 THEN <<"1">> ELSE NoPrefix, DefaultExpectedLength)

generateAddressP2SH(keyPublic, bytesVersion) ==
  Str(encodeBase58Check(createVersionedHash(hash160RedeemScript(keyPublic), bytesVersion)))

validateAddressP2SH(address, bytesVersion) ==
  validateBase58Check(Str(address), bytesVersion,
                      IF bytesVersion = 5 THEN <<"3">> ELSE NoPrefix, DefaultExpectedLength)

generateAddressSegWit(keyPublic, hrp, witnessVersion) ==
  bech32Encode(hrp, <<witnessVersion>> \o toWords(hash160(keyPublic)))

P2WPKHLen == 20

P2WSHLen == 32

\* true unless one of the checks returns false: the decoding, the prefix, the
\* witness version, the conversion of the program and, for version 0 only,
\* the length of the program
validateAddressSegWit(address, hrp, witnessVersion) ==
  Bool(\E decoded \in {bech32DecodeUnsafe(address)} :
         /\ decoded # Undefined
         /\ decoded.prefix = hrp
         /\ Len(decoded.words) > 0
         /\ decoded.words[1] = witnessVersion
         /\ \E data \in {fromWordsUnsafe(Tail(decoded.words))} :
              /\ data # Undefined
              /\ witnessVersion = 0 => (Len(data.v) = P2WPKHLen \/ Len(data.v) = P2WSHLen))

DefaultHexLength == 40

\* validateAddressHex(address, {prefix, length, caseSensitive}); an option left
\* out is <<>>, 0 or FALSE
validateAddressHex(address, optPrefix, optLength, optCaseSensitive) ==
  LET prefix         == IF optPrefix = <<>> THEN <<"0", "x">> ELSE optPrefix
      expectedLength == IF optLength = 0 THEN DefaultHexLength ELSE optLength
      addressWithoutPrefix == SliceFrom(address, Len(prefix))
  IN IF ~StartsWith(address, prefix) THEN Bool(FALSE)
     ELSE IF Len(addressWithoutPrefix) # expectedLength THEN Bool(FALSE)
     ELSE IF optCaseSensitive
          THEN Bool(\A i \in 1..Len(addressWithoutPrefix) :
                      IndexOf(HexDigits, addressWithoutPrefix[i]) > 0)
          ELSE Bool(\A i \in 1..Len(addressWithoutPrefix) : IsHexChar(addressWithoutPrefix[i]))

(***************************************************************************)
(* Bitcoin                                                                 *)
(***************************************************************************)

BitcoinParams(network) ==
  IF network = "testnet"
  THEN [hrpSegWit |-> <<"t", "b">>, prefixSegWitV1 |-> <<"t", "b", "1", "p">>,
        bytesVersionP2PKH |-> 111, bytesVersionP2SH |-> 196]
  ELSE [hrpSegWit |-> <<"b", "c">>, prefixSegWitV1 |-> <<"b", "c", "1", "p">>,
        bytesVersionP2PKH |-> 0, bytesVersionP2SH |-> 5]

bitcoin(options) == [name |-> "bitcoin", network |-> NetworkOf(options)]

bitcoinGetAddress(plugin, keyPublic, type) ==
  LET params == BitcoinParams(plugin.network)
  IN IF type \in {"segwit", "p2wsh", "taproot"}
     THEN generateAddressSegWit(keyPublic, params.hrpSegWit, IF type = "taproot" THEN 1 ELSE 0)
     ELSE IF type = "p2sh" THEN generateAddressP2SH(keyPublic, params.bytesVersionP2SH)
     ELSE generateAddressLegacy(keyPublic, params.bytesVersionP2PKH)

bitcoinValidateAddress_AnyNetwork(plugin, address) ==
  IF \E net \in {"mainnet", "testnet"} :
       StartsWith(address, BitcoinParams(net).hrpSegWit \o <<"1">>)
  THEN Bool(bech32DecodeUnsafe(address) # Undefined)
  ELSE Bool(decodeBase58Check(address) # Throw)

bitcoinValidateAddress(plugin, address) ==
  LET params  == BitcoinParams(plugin.network)
      network == plugin.network
  IN IF StartsWith(address, params.hrpSegWit \o <<"1">>)
     THEN IF StartsWith(address, params.prefixSegWitV1)
          THEN validateAddressSegWit(address, params.hrpSegWit, 1)
          ELSE validateAddressSegWit(address, params.hrpSegWit, 0)
     ELSE IF network = "mainnet" /\ StartsWith(address, <<"3">>)
          THEN validateAddressP2SH(address, params.bytesVersionP2SH)
     ELSE IF network = "testnet" /\ StartsWith(address, <<"2">>)
          THEN validateAddressP2SH(address, params.bytesVersionP2SH)
     ELSE IF network = "mainnet" /\ StartsWith(address, <<"1">>)
          THEN validateAddressLegacy(address, params.bytesVersionP2PKH)
     ELSE IF network = "testnet" /\ (StartsWith(address, <<"m">>) \/ StartsWith(address, <<"n">>))
          THEN validateAddressLegacy(address, params.bytesVersionP2PKH)
     ELSE Bool(FALSE)

(***************************************************************************)
(* TRON                                                                    *)
(***************************************************************************)

TronParams(network) ==
  IF network = "testnet"
  THEN [prefixByte |-> 160, prefixChar |-> <<"A">>]
  ELSE [prefixByte |-> 65, prefixChar |-> <<"T">>]

tron(options) == [name |-> "tron", network |-> NetworkOf(options)]

tronGetAddress(plugin, keyPublic) ==
  LET addressBytes == Digest(Salt.keccak256, keyPublic.id, EvmAddressBytes)
  IN Str(encodeBase58Check(addSchemeByte(addressBytes, TronParams(plugin.network).prefixByte, TRUE)))

tronValidateAddress(plugin, address) ==
  validateBase58Check(Str(address), TronParams(plugin.network).prefixByte,
                      TronParams(plugin.network).prefixChar, DefaultExpectedLength)

(***************************************************************************)
(* Solana                                                                  *)
(***************************************************************************)

solana(options) == [name |-> "solana", network |-> NetworkOf(options)]

solanaGetAddress(keyPublic) == Str(base58Encode(KeyBytes(keyPublic)))

SolanaKeyLen == 32

solanaValidateAddress_NoTry(address) ==
  LET decoded == base58Decode(address)
  IN IF decoded = Throw THEN Throw ELSE Bool(Len(decoded.v) = SolanaKeyLen)

solanaValidateAddress(address) ==
  LET decoded == base58Decode(address)
  IN IF decoded = Throw THEN Bool(FALSE) ELSE Bool(Len(decoded.v) = SolanaKeyLen)

(***************************************************************************)
(* Aptos and Sui                                                           *)
(***************************************************************************)

aptos(options) == [name |-> "aptos", network |-> NetworkOf(options)]

HexHashBytes == 32

HexAddressLength == 64

\* sha3_256(key bytes followed by the scheme byte 0x00)
aptosGetAddress(keyPublic) ==
  Str(createPrefixedAddress(Digest(Salt.sha3, keyPublic.id, HexHashBytes), <<"0", "x">>))

aptosValidateAddress(address) ==
  validateAddressHex(address, <<"0", "x">>, HexAddressLength, FALSE)

sui(options) == [name |-> "sui", network |-> NetworkOf(options)]

\* blake2b-256 of the scheme flag followed by the key bytes
suiGetAddress(keyPublic, type) ==
  LET flagByte == IF type = "secp256k1" THEN 1 ELSE 0
  IN Str(createPrefixedAddress(Digest(Salt.blake2b256 + 10 * flagByte, keyPublic.id, HexHashBytes),
                               <<"0", "x">>))

suiValidateAddress(address) ==
  validateAddressHex(address, <<"0", "x">>, HexAddressLength, FALSE)

(***************************************************************************)
(* Cardano                                                                 *)
(***************************************************************************)

cardano(options) == [name |-> "cardano", network |-> NetworkOf(options)]

Chars(word) == CASE word = "addr1" -> <<"a", "d", "d", "r", "1">>
                 [] word = "addr1e" -> <<"a", "d", "d", "r", "1", "e">>
                 [] word = "stake1" -> <<"s", "t", "a", "k", "e", "1">>
                 [] word = "addr_test1" -> <<"a", "d", "d", "r", "_", "t", "e", "s", "t", "1">>
                 [] word = "addr_test1e" -> <<"a", "d", "d", "r", "_", "t", "e", "s", "t", "1", "e">>
                 [] word = "stake_test1" -> <<"s", "t", "a", "k", "e", "_", "t", "e", "s", "t", "1">>

CardanoHashLen == 28

cardanoGetAddress(plugin, keyPublic, type) ==
  LET keyHash == Digest(Salt.blake2b224, keyPublic.id, CardanoHashLen)
      prefix  == IF plugin.network = "testnet"
                 THEN IF type = "stake" THEN Chars("stake_test1")
                      ELSE IF type = "enterprise" THEN Chars("addr_test1e")
                      ELSE Chars("addr_test1")
                 ELSE IF type = "stake" THEN Chars("stake1")
                      ELSE IF type = "enterprise" THEN Chars("addr1e")
                      ELSE Chars("addr1")
  IN Str(prefix \o base58Encode(keyHash))

cardanoValidateAddress(plugin, address) ==
  LET validPrefixes == IF plugin.network = "testnet"
                       THEN {"addr_test1", "addr_test1e", "stake_test1"}
                       ELSE {"addr1", "addr1e", "stake1"}
      base58Part ==
        IF StartsWith(address, Chars("addr1e")) THEN SliceFrom(address, 6)
        ELSE IF StartsWith(address, Chars("addr1")) THEN SliceFrom(address, 5)
        ELSE IF StartsWith(address, Chars("stake1")) THEN SliceFrom(address, 6)
        ELSE IF StartsWith(address, Chars("addr_test1e")) THEN SliceFrom(address, 11)
        ELSE IF StartsWith(address, Chars("addr_test1")) THEN SliceFrom(address, 10)
        ELSE IF StartsWith(address, Chars("stake_test1")) THEN SliceFrom(address, 11)
        ELSE <<>>
  IN IF ~(\E prefix \in validPrefixes : StartsWith(address, Chars(prefix))) THEN Bool(FALSE)
     ELSE LET decoded == base58Decode(base58Part)
          IN IF decoded = Throw THEN Bool(FALSE)
             ELSE Bool(Len(decoded.v) = CardanoHashLen)

(***************************************************************************)
(* Plugins                                                                 *)
(***************************************************************************)

EvmChains == {"ethereum", "base"}

Chains == EvmChains \cup {"bitcoin", "tron", "solana", "aptos", "sui", "cardano"}

\* the network option of a factory call; "none" is a call without options
NetworkOptions == {"none", "mainnet", "testnet"}

\* the factory of a chain, called with the network option
Plugin(chain, options) ==
  CASE chain \in EvmChains -> createEVMBlockchain(chain, options)
    [] chain = "bitcoin" -> bitcoin(options)
    [] chain = "tron" -> tron(options)
    [] chain = "solana" -> solana(options)
    [] chain = "aptos" -> aptos(options)
    [] chain = "sui" -> sui(options)
    [] chain = "cardano" -> cardano(options)

\* getAddress with an Aptos address that depends on the network of the instance
PluginGetAddress_AptosByNetwork(plugin, keyPublic, type) ==
  CASE plugin.name \in EvmChains -> evmGenerateAddress(keyPublic)
    [] plugin.name = "bitcoin" -> bitcoinGetAddress(plugin, keyPublic, type)
    [] plugin.name = "tron" -> tronGetAddress(plugin, keyPublic)
    [] plugin.name = "solana" -> solanaGetAddress(keyPublic)
    [] plugin.name = "aptos" ->
         IF plugin.network = "testnet"
         THEN Str(createPrefixedAddress(Digest(Salt.sha3, keyPublic.id + 1, HexHashBytes),
                                        <<"0", "x">>))
         ELSE aptosGetAddress(keyPublic)
    [] plugin.name = "sui" -> suiGetAddress(keyPublic, type)
    [] plugin.name = "cardano" -> cardanoGetAddress(plugin, keyPublic, type)

PluginGetAddress(plugin, keyPublic, type) ==
  CASE plugin.name \in EvmChains -> evmGenerateAddress(keyPublic)
    [] plugin.name = "bitcoin" -> bitcoinGetAddress(plugin, keyPublic, type)
    [] plugin.name = "tron" -> tronGetAddress(plugin, keyPublic)
    [] plugin.name = "solana" -> solanaGetAddress(keyPublic)
    [] plugin.name = "aptos" -> aptosGetAddress(keyPublic)
    [] plugin.name = "sui" -> suiGetAddress(keyPublic, type)
    [] plugin.name = "cardano" -> cardanoGetAddress(plugin, keyPublic, type)

PluginValidateAddress(plugin, address) ==
  CASE plugin.name \in EvmChains -> evmValidateAddress(address)
    [] plugin.name = "bitcoin" -> bitcoinValidateAddress(plugin, address)
    [] plugin.name = "tron" -> tronValidateAddress(plugin, address)
    [] plugin.name = "solana" -> solanaValidateAddress(address)
    [] plugin.name = "aptos" -> aptosValidateAddress(address)
    [] plugin.name = "sui" -> suiValidateAddress(address)
    [] plugin.name = "cardano" -> cardanoValidateAddress(plugin, address)

Ed25519KeyLen == 32

\* the curve of the keys a plugin's getKeyPublic returns by default
Curve(plugin) ==
  IF plugin.name \in EvmChains \cup {"bitcoin", "tron"} THEN "secp256k1" ELSE "ed25519"

\* generateKeyPublic of utils/secp256k1: secp256k1.getPublicKey(bytes, compressed)
\* with compressed = true unless the option says otherwise; it throws for a
\* private key that is not a valid scalar
getSecp256k1KeyPublic(keyPrivate, options) ==
  IF keyPrivate.scalar # "valid" THEN Throw
  ELSE [curve |-> "secp256k1",
        len |-> IF options.compressed = "false" THEN UncompressedLen ELSE CompressedLen,
        id |-> keyPrivate.id]

\* generateKeyPublic of utils/ed25519: every 32 bytes are a private key
getEd25519KeyPublic(keyPrivate) ==
  [curve |-> "ed25519", len |-> Ed25519KeyLen, id |-> keyPrivate.id]

\* blockchain.getKeyPublic(keyPrivate, options)
PluginGetKeyPublic(plugin, keyPrivate, options) ==
  CASE plugin.name \in EvmChains \cup {"bitcoin", "tron"} ->
         getSecp256k1KeyPublic(keyPrivate, options)
    [] plugin.name = "sui" ->
         IF options.scheme = "secp256k1"
         THEN getSecp256k1KeyPublic(keyPrivate, [compressed |-> "true", scheme |-> "unset"])
         ELSE getEd25519KeyPublic(keyPrivate)
    [] OTHER -> getEd25519KeyPublic(keyPrivate)

\* the optional members of a BlockchainImplementation
OptionalCapabilities == {"validateAddress", "signMessage", "verifyMessage"}

\* the optional members in the object a factory returns
Implements(plugin) ==
  IF plugin.name \in EvmChains \cup {"sui"} THEN {"validateAddress"}
  ELSE {"validateAddress", "signMessage", "verifyMessage"}

\* blockchain.signMessage(message, keyPrivate): the signature of a message is
\* fixed by the curve, the key and the message
PluginSignMessage(plugin, message, keyPrivate) ==
  [t |-> "signature", curve |-> Curve(plugin), id |-> keyPrivate.id, message |-> message]

\* blockchain.verifyMessage(message, signature, keyPublic)
PluginVerifyMessage(plugin, message, signature, keyPublic) ==
  Bool(signature.curve = keyPublic.curve /\ signature.id = keyPublic.id
       /\ signature.message = message)

(***************************************************************************)
(* The facade of useBlockchain                                             *)
(***************************************************************************)

\* the response object: its own functions, the members copied from the
\* implementation, and validateAddress if the implementation has it
useBlockchain(blockchain) ==
  [t |-> "facade", blockchain |-> blockchain,
   members |-> {"name", "curve", "network", "bip44", "generateKeyPrivate", "getKeyPublic",
                "getAddress", "generateKeys", "generateWallet"}
               \cup (IF "validateAddress" \in Implements(blockchain)
                     THEN {"validateAddress"} ELSE {})]

\* { keys: { private, public } } for a public key that was derived
KeysRecord(privateKey, publicKey) ==
  IF publicKey = Throw THEN Throw
  ELSE [t |-> "keys", keys |-> [private |-> privateKey, public |-> publicKey]]

generateKeys_DefaultOptions(blockchain, privateKey, options) ==
  KeysRecord(privateKey,
             PluginGetKeyPublic(blockchain, privateKey, [compressed |-> "unset", scheme |-> "unset"]))

\* generateKeys(options) for the private key generateKeyPrivate() drew
generateKeys(blockchain, privateKey, options) ==
  KeysRecord(privateKey, PluginGetKeyPublic(blockchain, privateKey, options))

\* { ...keys, address } for an address that was derived
WalletRecord(keys, address) ==
  IF keys = Throw \/ address = Throw THEN Throw
  ELSE [t |-> "wallet", keys |-> keys.keys, address |-> address.v]

WalletOf(blockchain, keys, addressType) ==
  WalletRecord(keys, IF keys = Throw THEN Throw
                     ELSE PluginGetAddress(blockchain, keys.keys.public, addressType))

generateWallet_FirstType(blockchain, privateKey, options, addressType) ==
  WalletOf(blockchain, generateKeys(blockchain, privateKey, options),
           IF blockchain.name = "bitcoin" THEN "legacy"
           ELSE IF blockchain.name = "cardano" THEN "payment"
           ELSE IF blockchain.name = "sui" THEN "ed25519" ELSE addressType)

\* generateWallet(options, addressType) for the private key generateKeyPrivate() drew
generateWallet(blockchain, privateKey, options, addressType) ==
  WalletOf(blockchain, generateKeys(blockchain, privateKey, options), addressType)

AddressTypes(chain) ==
  CASE chain = "bitcoin" -> {"legacy", "p2sh", "segwit", "p2wsh", "taproot"}
    [] chain = "cardano" -> {"payment", "stake", "enterprise"}
    [] chain = "sui" -> {"ed25519", "secp256k1"}
    [] OTHER -> {"default"}

(***************************************************************************)
(* Inputs of the plugins                                                   *)
(***************************************************************************)

\* number of distinct key pairs
NumKeys == 3

\* the caller changes the case of letters among the first MaxFlipLetters
\* letters of an address
MaxFlipLetters == 4

\* the public keys a chain's getKeyPublic returns
KeysOf(chain) ==
  LET Compressed == { [curve |-> "secp256k1", len |-> CompressedLen, id |-> i] :
                        i \in 0..(NumKeys - 1) }
      Uncompressed == { [curve |-> "secp256k1", len |-> UncompressedLen, id |-> NumKeys - 1] }
  IN CASE chain \in EvmChains -> Compressed \cup Uncompressed
       [] chain \in {"bitcoin", "tron"} -> Compressed
       [] OTHER -> { [curve |-> "ed25519", len |-> Ed25519KeyLen, id |-> i] :
                       i \in 0..(NumKeys - 1) }

\* public keys whose byte length is not the length of a key of the chain's curve
MalformedKeys(chain) ==
  IF chain \in EvmChains \cup {"bitcoin", "tron"}
  THEN { [curve |-> "secp256k1", len |-> n, id |-> NumKeys - 1] :
           n \in {Ed25519KeyLen, CompressedLen + 1} }
  ELSE { [curve |-> "ed25519", len |-> n, id |-> NumKeys - 1] :
           n \in {Ed25519KeyLen - 1, CompressedLen} }

MalformedKeyInputs ==
  UNION { [kind : {"key"}, chain : {c}, options : NetworkOptions \ {"none"},
           type : AddressTypes(c), key : MalformedKeys(c)] : c \in Chains }

\* the 32 random bytes of generateKeyPrivate(): NumKeys valid private keys and
\* the bytes that are no secp256k1 scalar
PrivateKeys ==
  [id : 0..(NumKeys - 1), scalar : {"valid"}] \cup {[id |-> 0, scalar |-> "zero"]}

\* the KeyOptions argument: left out, compressed set, scheme set
KeyOptionsSet ==
  { [compressed |-> "unset", scheme |-> "unset"],
    [compressed |-> "true", scheme |-> "unset"],
    [compressed |-> "false", scheme |-> "unset"],
    [compressed |-> "unset", scheme |-> "ed25519"],
    [compressed |-> "unset", scheme |-> "secp256k1"] }

\* the callers of the facade: useBlockchain(chain(options)) and the arguments
\* of generateKeys and generateWallet
WalletInputs ==
  UNION { [kind : {"wallet"}, chain : {c}, options : NetworkOptions \ {"none"},
           type : AddressTypes(c), keyOptions : KeyOptionsSet] : c \in Chains }

KeyInputs(chains) ==
  UNION { [kind : {"key"}, chain : {c}, options : NetworkOptions \ {"none"},
           type : AddressTypes(c), key : KeysOf(c)] : c \in chains }

\* address strings the caller did not get from getAddress
TextInputs ==
  [kind : {"text"}, text :
  { <<>>, <<"0", "x">>, <<"0", "x", "0">>, <<"1">>, <<"b", "c", "1", "q">>,
    <<"a", "d", "d", "r", "1">>,
    <<"b", "c", "1", " ", "a", "1", "q", "q", "q", "q", "q", "q">>,
    <<"b", "c", "1">> \o [i \in 1..(MaxBech32Len - 2) |-> "0"] }]

\* arguments of the Base58Check entry points
Base58Versions == {0, 65}

PayloadInputs ==
  [kind : {"payload"}, version : Base58Versions, id : 0..(NumKeys - 1),
   len : {Hash160Len, Hash160Len - 1}]

ValueInputs == [kind : {"value"}, value : NonStrings]


\* characters the caller may put in place of one character of an address
EditChars == {"0", "1", "a", "F", "q", "Z", "!"}

(***************************************************************************)
(* The caller                                                              *)
(***************************************************************************)

Held(gen, text, edit) == [t |-> "held", gen |-> gen, text |-> text, edit |-> edit]

\* the exported object of _blockchains.ts: the chain names bound to their
\* factories in a plain object; the other revision of the file binds them to
\* module paths in an object passed through Object.freeze
Registry(frozen) ==
  [frozen |-> frozen,
   entries |-> [name \in Chains |->
                  [t |-> IF frozen THEN "path" ELSE "factory", chain |-> name]]]

\* before the first call: nothing called, no instance constructed, the
\* registry as the module built it
FreshCaller ==
  /\ op = "none"
  /\ callee = None
  /\ ret = None
  /\ held = IF input.kind = "text"
            THEN Held(input.text, input.text, [kind |-> "literal"])
            ELSE None
  /\ instances = <<>>

Fresh ==
  /\ FreshCaller
  /\ blockchains = Registry(FALSE)
  /\ callerOptions = "none"

InitPath == input \in PathArgs \cup PathInputs \cup DeriveInputs /\ Fresh

InitBase58 == input \in PayloadInputs \cup ValueInputs \cup TextInputs /\ Fresh

InitEvm == input \in KeyInputs(EvmChains) \cup TextInputs /\ Fresh

GetBIP44Path ==
  /\ op = "none"
  /\ input.kind = "pathArgs"
  /\ op' = "getBIP44Path"
  /\ ret' = Str(getBIP44Path(input.coinType, input.account, input.change, input.addressIndex))
  /\ UNCHANGED <<input, callee, held, blockchains, callerOptions, instances>>

ParseBIP44Path ==
  /\ op = "none"
  /\ input.kind = "path"
  /\ op' = "parseBIP44Path"
  /\ ret' = parseBIP44Path(input.text)
  /\ UNCHANGED <<input, callee, held, blockchains, callerOptions, instances>>

DeriveHDKey ==
  /\ op = "none"
  /\ input.kind = "derive"
  /\ op' = "deriveHDKey"
  /\ ret' = deriveHDKey(input.path, input.force)
  /\ UNCHANGED <<input, callee, held, blockchains, callerOptions, instances>>

\* plugin.getAddress(keyPublic, type) of a fresh instance
GetAddress ==
  /\ op = "none"
  /\ input.kind = "key"
  /\ callee' = Plugin(input.chain, input.options)
  /\ ret' = PluginGetAddress(callee', input.key, input.type)
  /\ held' = IF ret' = Throw THEN None ELSE Held(ret'.v, ret'.v, [kind |-> "none"])
  /\ op' = "getAddress"
  /\ UNCHANGED <<input, blockchains, callerOptions, instances>>

\* encodeBase58Check(data) of a versioned hash
EncodeBase58Check ==
  /\ op = "none"
  /\ input.kind = "payload"
  /\ callee' = [name |-> "encodeBase58Check",
                data |-> createVersionedHash(Digest(Salt.hash160, input.id, input.len),
                                             input.version)]
  /\ ret' = Str(encodeBase58Check(callee'.data))
  /\ held' = Held(ret'.v, ret'.v, [kind |-> "none"])
  /\ op' = "encodeBase58Check"
  /\ UNCHANGED <<input, blockchains, callerOptions, instances>>

\* the caller alters the address it got
EditStep(text, edit) ==
  /\ op \in {"getAddress", "encodeBase58Check"}
  /\ held # None
  /\ op' = "edit"
  /\ held' = Held(held.gen, text, edit)
  /\ UNCHANGED <<input, callee, ret, blockchains, callerOptions, instances>>

\* address.toLowerCase()
EditLower == op \in {"getAddress", "encodeBase58Check"} /\ held # None /\ EditStep(ToLower(held.text), [kind |-> "lower"])

\* '0x' + address.slice(2).toUpperCase()
EditUpperBody ==
  /\ op \in {"getAddress", "encodeBase58Check"} /\ held # None
  /\ EditStep(SubSeq(held.text, 1, 2) \o ToUpper(SliceFrom(held.text, 2)), [kind |-> "upperBody"])

\* address.toUpperCase()
EditUpperAll == op \in {"getAddress", "encodeBase58Check"} /\ held # None /\ EditStep(ToUpper(held.text), [kind |-> "upperAll"])

FlipCaseChar(c) == IF IsLower(c) THEN ToUpperChar(c) ELSE ToLowerChar(c)

\* the positions of the first n letters of text after its first two characters
FirstLetters(text, n) ==
  LET letters == {i \in 3..Len(text) : IsLower(text[i]) \/ IsUpper(text[i])}
  IN {i \in letters : Cardinality({j \in letters : j < i}) < n}

EditFlipCase ==
  /\ op \in {"getAddress", "encodeBase58Check"} /\ held # None
  /\ \E S \in SUBSET FirstLetters(held.text, MaxFlipLetters) :
       /\ S # {}
       /\ EditStep(Listed([i \in 1..Len(held.text) |->
                      IF i \in S THEN FlipCaseChar(held.text[i]) ELSE held.text[i]]),
                   [kind |-> "flip", at |-> S])

EditReplace ==
  /\ op \in {"getAddress", "encodeBase58Check"} /\ held # None
  /\ \E pos \in 1..Len(held.text) :
       \E ch \in EditChars \cup {FlipCaseChar(held.text[pos])} :
         /\ ch # held.text[pos]
         /\ EditStep([held.text EXCEPT ![pos] = ch], [kind |-> "replace", at |-> pos, ch |-> ch])

EditDropLast ==
  /\ op \in {"getAddress", "encodeBase58Check"} /\ held # None
  /\ Len(held.text) > 0
  /\ EditStep(DropLast(held.text, 1), [kind |-> "dropLast"])

EditAppend ==
  /\ op \in {"getAddress", "encodeBase58Check"} /\ held # None
  /\ \E ch \in {"0", "a"} : EditStep(Append(held.text, ch), [kind |-> "append", ch |-> ch])

\* plugin.validateAddress(address) of a fresh instance; an altered address goes
\* to the instances of the chain it was generated for
ValidateAddress ==
  /\ op \in {"none", "getAddress", "edit"}
  /\ input.kind \in {"key", "text"}
  /\ held # None
  /\ \E chain \in Chains, options \in NetworkOptions :
       /\ op = "edit" => chain = input.chain /\ options = input.options
       /\ callee' = Plugin(chain, options)
       /\ ret' = PluginValidateAddress(Plugin(chain, options), held.text)
  /\ op' = "validateAddress"
  /\ UNCHANGED <<input, held, blockchains, callerOptions, instances>>

\* validateBase58Check(value, bytesVersion, expectedPrefix?, expectedLength?);
\* the default stands for an expectedLength left out
ValidateBase58Check ==
  /\ op \in {"none", "encodeBase58Check", "edit"}
  /\ input.kind \in {"payload", "text", "value"}
  /\ input.kind # "value" => held # None
  /\ \E bytesVersion \in Base58Versions, expectedPrefix \in { NoPrefix, <<"1">> },
        expectedLength \in { DefaultExpectedLength, DefaultExpectedLength - 1 } :
       LET value == IF input.kind = "value" THEN input.value ELSE Str(held.text)
       IN /\ callee' = [name |-> "validateBase58Check", value |-> value,
                        bytesVersion |-> bytesVersion, expectedPrefix |-> expectedPrefix,
                        expectedLength |-> expectedLength]
          /\ ret' = validateBase58Check(value, bytesVersion, expectedPrefix, expectedLength)
  /\ op' = "validateBase58Check"
  /\ UNCHANGED <<input, held, blockchains, callerOptions, instances>>

\* decodeBase58Check(address) of the string the caller holds
DecodeBase58Check ==
  /\ op \in {"encodeBase58Check", "edit"}
  /\ input.kind = "payload"
  /\ callee' = [name |-> "decodeBase58Check", address |-> held.text]
  /\ ret' = decodeBase58Check(held.text)
  /\ op' = "decodeBase58Check"
  /\ UNCHANGED <<input, held, blockchains, callerOptions, instances>>

\* useBlockchain(chain(options)).generateKeys(keyOptions)
GenerateKeys ==
  /\ op = "none"
  /\ input.kind = "wallet"
  /\ callee' = useBlockchain(Plugin(input.chain, input.options))
  /\ \E privateKey \in PrivateKeys :
       ret' = generateKeys(callee'.blockchain, privateKey, input.keyOptions)
  /\ op' = "generateKeys"
  /\ UNCHANGED <<input, held, blockchains, callerOptions, instances>>

\* useBlockchain(chain(options)).generateWallet(keyOptions, type)
GenerateWallet ==
  /\ op = "none"
  /\ input.kind = "wallet"
  /\ callee' = useBlockchain(Plugin(input.chain, input.options))
  /\ \E privateKey \in PrivateKeys :
       ret' = generateWallet(callee'.blockchain, privateKey, input.keyOptions, input.type)
  /\ held' = IF ret' = Throw THEN None ELSE Held(ret'.address, ret'.address, [kind |-> "none"])
  /\ op' = "generateWallet"
  /\ UNCHANGED <<input, blockchains, callerOptions, instances>>

\* the messages the caller signs
Messages == {"hello", ""}

\* the arguments the caller has for an optional member of the facade
MemberCalls ==
  [member : {"validateAddress"}, address : {<<"1">>, <<"0", "x">>}]
    \cup [member : {"signMessage"}, message : Messages, keyPrivate : PrivateKeys]
    \cup [member : {"verifyMessage"}, message : Messages, signed : Messages,
          keyPrivate : [id : 0..1, scalar : {"valid"}]]

\* what the implementation's own member returns for the call
PluginCall(blockchain, call) ==
  CASE call.member = "validateAddress" -> PluginValidateAddress(blockchain, call.address)
    [] call.member = "signMessage" ->
         PluginSignMessage(blockchain, call.message, call.keyPrivate)
    [] call.member = "verifyMessage" ->
         PluginVerifyMessage(blockchain, call.message,
                             PluginSignMessage(blockchain, call.signed, call.keyPrivate),
                             getEd25519KeyPublic([id |-> 0, scalar |-> "valid"]))

\* facade.member(...): a member the response object lacks is undefined, and
\* calling it raises a TypeError
FacadeCall(facade, call) ==
  IF call.member \notin facade.members THEN Throw ELSE PluginCall(facade.blockchain, call)

\* useBlockchain(chain(options)).validateAddress / signMessage / verifyMessage
CallMember ==
  /\ op = "none"
  /\ input.kind = "wallet"
  /\ callee' = useBlockchain(Plugin(input.chain, input.options))
  /\ \E call \in MemberCalls :
       /\ held' = [t |-> "call", call |-> call]
       /\ ret' = FacadeCall(callee', call)
  /\ op' = "member"
  /\ UNCHANGED <<input, blockchains, callerOptions, instances>>

InitFacade == input \in WalletInputs \cup MalformedKeyInputs /\ Fresh

NextFacade ==
  \/ GetAddress
  \/ GenerateKeys
  \/ GenerateWallet
  \/ CallMember

SpecFacade == InitFacade /\ [][NextFacade]_vars

\* object[name] = value by a caller: a frozen object keeps its properties
AssignProperty(object, name, value) ==
  IF object.frozen THEN object
  ELSE [object EXCEPT !.entries =
          [n \in DOMAIN object.entries \cup {name} |->
             IF n = name THEN value ELSE object.entries[n]]]

\* delete object[name] by a caller
DeleteProperty(object, name) ==
  IF object.frozen THEN object
  ELSE [object EXCEPT !.entries = [n \in DOMAIN object.entries \ {name} |-> object.entries[n]]]

\* the names a caller assigns or deletes: one the module bound, one it did not
CallerNames == {"bitcoin", "custom"}

\* blockchains[name] = blockchains.solana
AssignEntry ==
  /\ "solana" \in DOMAIN blockchains.entries
  /\ \E name \in CallerNames :
       blockchains' = AssignProperty(blockchains, name, blockchains.entries["solana"])
  /\ UNCHANGED <<input, op, callee, ret, held, callerOptions, instances>>

\* delete blockchains[name]
DeleteEntry ==
  /\ \E name \in CallerNames \cap DOMAIN blockchains.entries :
       blockchains' = DeleteProperty(blockchains, name)
  /\ UNCHANGED <<input, op, callee, ret, held, callerOptions, instances>>

InitRegistry ==
  /\ input \in KeyInputs({"bitcoin"})
  /\ FreshCaller
  /\ blockchains \in {Registry(FALSE), Registry(TRUE)}
  /\ callerOptions = "none"

NextRegistry ==
  \/ GetAddress
  \/ ValidateAddress
  \/ AssignEntry
  \/ DeleteEntry

SpecRegistry == InitRegistry /\ [][NextRegistry]_vars

\* instances a caller constructs and keeps
MaxInstances == 2

\* a caller that keeps an options object and the instances it made from it
SessionInputs ==
  UNION { [kind : {"session"}, chain : {c}, type : AddressTypes(c),
           key : {k \in KeysOf(c) : k.id = NumKeys - 1}] : c \in Chains }

\* chain(options) by the caller: the factory reads options.network while it
\* runs; args records the options it was given
Construct ==
  /\ input.kind = "session"
  /\ Len(instances) < MaxInstances
  /\ instances' = Append(instances, [plugin |-> Plugin(input.chain, callerOptions),
                                     args |-> callerOptions])
  /\ UNCHANGED <<input, op, callee, ret, held, blockchains, callerOptions>>

\* options.network = network by the caller, after a factory was given options
MutateOptions ==
  /\ input.kind = "session"
  /\ callerOptions # "none"
  /\ instances # <<>>
  /\ \E network \in {"mainnet", "testnet"} \ {callerOptions} : callerOptions' = network
  /\ UNCHANGED <<input, op, callee, ret, held, blockchains, instances>>

\* a member that reads the network from the options object when it is called
InstanceParams_Late(instance, options) == Plugin(instance.plugin.name, options)

\* what a member of the instance reads: the constants of the factory's
\* closure, chosen when the factory ran
InstanceParams(instance, options) == instance.plugin

\* a member that leaves the testnet parameters in the closure
ClosureAfterCall_SwitchNetwork(instance) == [instance EXCEPT !.plugin.network = "testnet"]

\* the closure after a member ran: the members assign to none of its constants
ClosureAfterCall(instance) == instance

\* instance.getAddress(keyPublic, type) of an instance the caller kept
InstanceGetAddress ==
  /\ input.kind = "session"
  /\ \E h \in DOMAIN instances :
       /\ callee' = [instance |-> instances[h],
                     used |-> InstanceParams(instances[h], callerOptions)]
       /\ instances' = [instances EXCEPT ![h] = ClosureAfterCall(instances[h])]
  /\ ret' = PluginGetAddress(callee'.used, input.key, input.type)
  /\ held' = IF ret' = Throw THEN held ELSE Held(ret'.v, ret'.v, [kind |-> "none"])
  /\ op' = "instance.getAddress"
  /\ UNCHANGED <<input, blockchains, callerOptions>>

\* instance.validateAddress(address) of an instance the caller kept
InstanceValidateAddress ==
  /\ input.kind = "session"
  /\ held # None
  /\ \E h \in DOMAIN instances :
       /\ callee' = [instance |-> instances[h],
                     used |-> InstanceParams(instances[h], callerOptions)]
       /\ instances' = [instances EXCEPT ![h] = ClosureAfterCall(instances[h])]
  /\ ret' = PluginValidateAddress(callee'.used, held.text)
  /\ op' = "instance.validateAddress"
  /\ UNCHANGED <<input, held, blockchains, callerOptions>>

\* the path arguments and path strings of a caller that also keeps instances
SessionPathArgs ==
  { a \in PathArgs : a.coinType \in {N(0), N(60)} /\ a.account = N(0) /\ a.change = N(0)
                      /\ a.addressIndex = N(1) }

SessionPaths ==
  { <<"m", "/", "4", "4", "'", "/", "0", "'", "/", "0", "'", "/", "0", "/", "1">>,
    <<"m", "/", "4", "4", "'", "/", "x", "/", "0", "'", "/", "0", "/", "0">> }

\* getBIP44Path(...) between the calls on the instances
SessionGetBIP44Path ==
  /\ input.kind = "session"
  /\ \E a \in SessionPathArgs :
       /\ callee' = [name |-> "getBIP44Path", args |-> a]
       /\ ret' = Str(getBIP44Path(a.coinType, a.account, a.change, a.addressIndex))
  /\ op' = "session.getBIP44Path"
  /\ UNCHANGED <<input, held, blockchains, callerOptions, instances>>

\* parseBIP44Path(path) between the calls on the instances
SessionParseBIP44Path ==
  /\ input.kind = "session"
  /\ \E text \in SessionPaths :
       /\ callee' = [name |-> "parseBIP44Path", text |-> text]
       /\ ret' = parseBIP44Path(text)
  /\ op' = "session.parseBIP44Path"
  /\ UNCHANGED <<input, held, blockchains, callerOptions, instances>>

InitSession ==
  /\ input \in SessionInputs
  /\ FreshCaller
  /\ blockchains = Registry(FALSE)
  /\ callerOptions \in NetworkOptions

NextSession ==
  \/ Construct
  \/ MutateOptions
  \/ InstanceGetAddress
  \/ InstanceValidateAddress
  \/ SessionGetBIP44Path
  \/ SessionParseBIP44Path

SpecSession == InitSession /\ [][NextSession]_vars

\* strings handed to validateAddressHex by a caller that has no key
HexTexts ==
  [kind : {"text"}, text :
  { <<>>, <<"0", "x">>, <<"a", "b">>, <<"A", "b">>, <<"0", "x", "a", "b">>,
    <<"0", "x", "A", "B">>, <<"T", "0", "9">>, <<"0", "x", "g", "1">>, <<"a", "b", "c">>,
    [i \in 1..DefaultHexLength |-> "a"],
    <<"0", "x">> \o [i \in 1..DefaultHexLength |-> "F"] }]

\* the options a caller passes to validateAddressHex
HexOptions ==
  [prefix : {<<>>, <<"0", "x">>, <<"T">>}, length : {0, 2, DefaultHexLength},
   caseSensitive : BOOLEAN]

\* validateAddressHex(address, {prefix, length, caseSensitive})
ValidateAddressHex ==
  /\ op \in {"none", "getAddress"}
  /\ input.kind \in {"key", "text"}
  /\ held # None
  /\ \E options \in HexOptions :
       /\ callee' = [name |-> "validateAddressHex", options |-> options]
       /\ ret' = validateAddressHex(held.text, options.prefix, options.length,
                                    options.caseSensitive)
  /\ op' = "validateAddressHex"
  /\ UNCHANGED <<input, held, blockchains, callerOptions, instances>>

InitHex == input \in KeyInputs({"aptos"} \cup EvmChains) \cup HexTexts /\ Fresh

NextHex ==
  \/ GetAddress
  \/ ValidateAddressHex

SpecHex == InitHex /\ [][NextHex]_vars

\* const bip44 of each factory: the SLIP-0044 coin type
Bip44(chain) ==
  CASE chain = "bitcoin" -> N(0)
    [] chain \in EvmChains -> N(60)
    [] chain = "solana" -> N(501)
    [] chain = "cardano" -> N(1815)
    [] chain = "tron" -> N(195)
    [] chain = "aptos" -> N(637)
    [] chain = "sui" -> N(784)

\* getBlockchainPath(blockchain, account, change, addressIndex)
getBlockchainPath(blockchain, account, change, addressIndex) ==
  getBIP44Path(blockchain.bip44, account, change, addressIndex)

\* the arguments the parameter type number admits: indices in and out of the
\* range 0..2^31-1 and a change that is neither 0 nor 1
NumberArgs ==
  LET Numbers == {N(0), N(5), MaxIndex, HARDENED_OFFSET, NumNeg(N(1))}
  IN [kind : {"numberArgs"}, coinType : Numbers, account : {N(0), MaxIndex, HARDENED_OFFSET},
      change : {N(0), N(1), N(2)}, addressIndex : Numbers]

\* getBIP44Path(coinType, account, change, addressIndex) with any numbers
GetBIP44PathOfNumbers ==
  /\ op = "none"
  /\ input.kind = "numberArgs"
  /\ op' = "getBIP44PathOfNumbers"
  /\ callee' = [name |-> "getBIP44Path", coinType |-> input.coinType]
  /\ ret' = Str(getBIP44Path(input.coinType, input.account, input.change, input.addressIndex))
  /\ UNCHANGED <<input, held, blockchains, callerOptions, instances>>

\* getBlockchainPath(chain(), account, change, addressIndex) with any numbers
GetBlockchainPath ==
  /\ op = "none"
  /\ input.kind = "numberArgs"
  /\ op' = "getBlockchainPath"
  /\ \E chain \in Chains :
       /\ callee' = [name |-> chain, bip44 |-> Bip44(chain)]
       /\ ret' = Str(getBlockchainPath(callee', input.account, input.change,
                                       input.addressIndex))
  /\ UNCHANGED <<input, held, blockchains, callerOptions, instances>>

InitPathOfNumbers == input \in NumberArgs /\ Fresh

NextPathOfNumbers ==
  \/ GetBIP44PathOfNumbers
  \/ GetBlockchainPath

SpecPathOfNumbers == InitPathOfNumbers /\ [][NextPathOfNumbers]_vars

\* the id of a key pair whose blake2b-224 key hash, written in base58, begins
\* with the character e
KeyWithHashInE == 176

\* the ed25519 public keys handed to a Cardano instance
CardanoInputs ==
  [kind : {"key"}, chain : {"cardano"}, options : NetworkOptions \ {"none"},
   type : AddressTypes("cardano"),
   key : KeysOf("cardano")
           \cup {[curve |-> "ed25519", len |-> Ed25519KeyLen, id |-> KeyWithHashInE]}]

InitCardano == input \in CardanoInputs /\ Fresh

NextCardano ==
  \/ GetAddress
  \/ ValidateAddress

SpecCardano == InitCardano /\ [][NextCardano]_vars

\* a network name other than 'mainnet' and 'testnet': NetworkType admits any
\* string
OtherNetworkName == "regtest"

\* callers that name the network of the instance
NamedNetworkInputs ==
  UNION { [kind : {"key"}, chain : {c}, options : {"mainnet", OtherNetworkName},
           type : AddressTypes(c), key : KeysOf(c)] : c \in Chains }

\* instance.validateAddress(instance.getAddress(keyPublic, type)): the address
\* goes back to the instance it came from
ValidateOwnAddress ==
  /\ op = "getAddress"
  /\ held # None
  /\ ret' = PluginValidateAddress(callee, held.text)
  /\ op' = "validateOwnAddress"
  /\ UNCHANGED <<input, callee, held, blockchains, callerOptions, instances>>

InitNamedNetwork == input \in NamedNetworkInputs /\ Fresh

NextNamedNetwork ==
  \/ GetAddress
  \/ ValidateOwnAddress

SpecNamedNetwork == InitNamedNetwork /\ [][NextNamedNetwork]_vars

\* a private key with its version byte in front is 33 bytes
KeyPrivateLen == 32

\* a short payload
ShortDataLen == 4

\* payloads of the lengths a caller gives a version byte: hashes, private keys
\* and short data
LengthInputs ==
  [kind : {"payload"}, version : Base58Versions, id : 0..(NumKeys - 1),
   len : {Hash160Len, Hash160Len - 1, KeyPrivateLen, ShortDataLen}]

\* validateBase58Check(address, bytesVersion, undefined, expectedLength) with
\* the expectedLength of the caller
ValidateBase58CheckOfLength ==
  /\ op = "encodeBase58Check"
  /\ \E bytesVersion \in Base58Versions,
        expectedLength \in {Len(callee.data), DefaultExpectedLength} :
       /\ callee' = [name |-> "validateBase58Check", value |-> ret,
                     bytesVersion |-> bytesVersion, expectedPrefix |-> NoPrefix,
                     expectedLength |-> expectedLength]
       /\ ret' = validateBase58Check(ret, bytesVersion, NoPrefix, expectedLength)
  /\ op' = "validateBase58CheckOfLength"
  /\ UNCHANGED <<input, held, blockchains, callerOptions, instances>>

InitLengths == input \in LengthInputs /\ Fresh

NextLengths ==
  \/ EncodeBase58Check
  \/ ValidateBase58CheckOfLength

SpecLengths == InitLengths /\ [][NextLengths]_vars

NextPath ==
  \/ GetBIP44Path
  \/ ParseBIP44Path
  \/ DeriveHDKey

NextPlugin ==
  \/ GetAddress
  \/ EditLower
  \/ EditUpperBody
  \/ EditUpperAll
  \/ EditFlipCase
  \/ EditReplace
  \/ EditDropLast
  \/ EditAppend
  \/ ValidateAddress

SpecPath == InitPath /\ [][NextPath]_vars

NextBase58 ==
  \/ EncodeBase58Check
  \/ EditLower
  \/ EditUpperBody
  \/ EditUpperAll
  \/ EditFlipCase
  \/ EditReplace
  \/ EditDropLast
  \/ EditAppend
  \/ ValidateBase58Check
  \/ DecodeBase58Check

SpecBase58 == InitBase58 /\ [][NextBase58]_vars

SpecEvm == InitEvm /\ [][NextPlugin]_vars

ChecksummedChains == EvmChains \cup {"bitcoin", "tron"}

InitChecksum == input \in KeyInputs(ChecksummedChains) \cup TextInputs /\ Fresh

SpecChecksum == InitChecksum /\ [][NextPlugin]_vars

Init ==
  /\ input \in KeyInputs(Chains) \cup TextInputs \cup PathArgs \cup PathInputs
                \cup DeriveInputs \cup PayloadInputs \cup ValueInputs
  /\ Fresh

Next == NextPlugin \/ NextPath \/ EncodeBase58Check \/ ValidateBase58Check

Spec == Init /\ [][Next]_vars

(***************************************************************************)
(* Properties                                                              *)
(***************************************************************************)

\* C8: parseBIP44Path(getBIP44Path(coinType, account, change, addressIndex)) is
\* the record {purpose: 44, coinType, account, change, addressIndex}, for
\* indices in 0..2^31-1 and change in {0, 1}.
C8_RoundTrip ==
  op = "getBIP44Path" =>
    parseBIP44Path(ret.v) = [t            |-> "record",
                           purpose      |-> N(44),
                           coinType     |-> input.coinType,
                           account      |-> input.account,
                           change       |-> input.change,
                           addressIndex |-> input.addressIndex]

C8_Witness ==
  /\ op = "getBIP44Path"
  /\ input.coinType = MaxIndex
  /\ input.change = N(1)
  /\ input.addressIndex = MaxIndex
  /\ parseBIP44Path(ret.v).t = "record"

\* a segment that denotes a hardened index: it carries the hardened mark, or
\* its number is 2^31 or more
HardenedSeg(seg) == EndsWith(seg, <<"'">>) \/ NumGe(ParseInt(seg), HARDENED_OFFSET)

\* C9: parseBIP44Path returns a record only for a path that starts with "m/",
\* has exactly 5 segments, whose purpose is hardened 44, whose coinType and
\* account are hardened and whose change and addressIndex are not hardened,
\* with change 0 or 1.
C9_RecordOnlyForBIP44 ==
  (op = "parseBIP44Path" /\ ret # Undefined) =>
    /\ StartsWith(input.text, <<"m", "/">>)
    /\ LET segs == Split(SliceFrom(input.text, 2), "/")
       IN /\ Len(segs) = 5
          /\ HardenedSeg(segs[1])
          /\ ret.purpose = N(44)
          /\ HardenedSeg(segs[2])
          /\ HardenedSeg(segs[3])
          /\ ~HardenedSeg(segs[4])
          /\ ret.change \in {N(0), N(1)}
          /\ ~HardenedSeg(segs[5])

\* a path with an index that carries no hardened mark
HasNonHardenedIndex(path) ==
  LET parts == Split(path, "/")
  IN \E i \in 2..Len(parts) :
       Len(IndexDigits(parts[i])) > 0 /\ ~EndsWith(parts[i], <<"'">>)

\* C10: deriveHDKey on the ed25519 tree raises for a path with a non-hardened
\* index unless the caller passed forceHardened = true; a call that leaves the
\* argument out raises too.
C10_NonHardenedRaises ==
  (op = "deriveHDKey" /\ HasNonHardenedIndex(input.path) /\ input.force # "true") =>
    ret = Throw

HexCharSet ==
  {"0", "1", "2", "3", "4", "5", "6", "7", "8", "9",
   "a", "b", "c", "d", "e", "f", "A", "B", "C", "D", "E", "F"}

NoUpperHex(s) == \A i \in 1..Len(s) : s[i] \notin {"A", "B", "C", "D", "E", "F"}

NoLowerHex(s) == \A i \in 1..Len(s) : s[i] \notin {"a", "b", "c", "d", "e", "f"}

EvmWellFormed(text) ==
  /\ Len(text) = 42
  /\ text[1] = "0"
  /\ text[2] = "x"
  /\ \A i \in 3..42 : text[i] \in HexCharSet
  /\ LET body == SubSeq(text, 3, 42)
     IN \/ NoUpperHex(body)
        \/ NoLowerHex(body)
        \/ Str(body) = toChecksumAddress(ToLower(body))

ByEvm == op = "validateAddress" /\ callee.name \in EvmChains

\* C4: EVM validateAddress returns true exactly when the address is "0x"
\* followed by exactly 40 hex characters that are all lowercase, or all
\* uppercase, or equal to the EIP-55 checksum of their lowercased form; for
\* every other string it returns false.
C4_EvmValidateExactly == ByEvm => ret = Bool(EvmWellFormed(held.text))

C4_Witness ==
  /\ ByEvm
  /\ ret = Bool(TRUE)
  /\ ~NoUpperHex(SliceFrom(held.text, 2))
  /\ ~NoLowerHex(SliceFrom(held.text, 2))

FromEvm == held # None /\ input.kind = "key" /\ input.chain \in EvmChains

\* C5: for every address A returned by EVM getAddress, the lowercased A and A
\* with its hex part uppercased validate, and every mixed-case variant of A
\* (same hex digits, other letter case) other than A itself is rejected.
C5_CaseInvariance ==
  (ByEvm /\ FromEvm) =>
    /\ held.edit.kind \in {"lower", "upperBody"} => ret = Bool(TRUE)
    /\ ( /\ held.text # held.gen
         /\ ToLower(held.text) = ToLower(held.gen)
         /\ ~NoUpperHex(SliceFrom(held.text, 2))
         /\ ~NoLowerHex(SliceFrom(held.text, 2)) ) => ret = Bool(FALSE)

C5_Witness ==
  /\ ByEvm
  /\ FromEvm
  /\ held.edit.kind = "flip"
  /\ ~NoUpperHex(SliceFrom(held.gen, 2))
  /\ ~NoLowerHex(SliceFrom(held.gen, 2))
  /\ ~NoUpperHex(SliceFrom(held.text, 2))
  /\ ~NoLowerHex(SliceFrom(held.text, 2))
  /\ ret = Bool(FALSE)

Base58CheckAccepts(value, bytesVersion, expectedPrefix, expectedLength) ==
  /\ value.t = "str"
  /\ value.v # <<>>
  /\ expectedPrefix # NoPrefix => StartsWith(value.v, expectedPrefix)
  /\ Len(value.v) >= 26
  /\ Len(value.v) <= 35
  /\ LET decoded == decodeBase58Check(value.v)
     IN /\ decoded # Throw
        /\ Len(decoded.v) = expectedLength
        /\ decoded.v[1] = bytesVersion

\* C6: validateBase58Check never throws, whatever the input (non-string values
\* included), and returns true exactly when the text is a non-empty string,
\* starts with the expected prefix if one is given, has 26 to 35 characters,
\* Base58Check-decodes with a matching checksum to exactly expectedLength
\* bytes, and its first decoded byte equals the version; otherwise false.
C6_Base58CheckExactly ==
  op = "validateBase58Check" =>
    ret = Bool(Base58CheckAccepts(callee.value, callee.bytesVersion,
                                  callee.expectedPrefix, callee.expectedLength))

C6_Witness ==
  /\ op = "validateBase58Check"
  /\ callee.expectedPrefix # NoPrefix
  /\ ret = Bool(TRUE)

UneditedFromKey == op = "validateAddress" /\ input.kind = "key" /\ held.edit.kind = "none"

OtherNetwork == callee.name = input.chain /\ callee.network # NetworkOf(input.options)

\* C1: network separation for every chain plugin: an address returned by
\* getAddress of an instance on one network is rejected by validateAddress of
\* an instance of the same chain on the other network.
C1_NetworkSeparation == (UneditedFromKey /\ OtherNetwork) => ret = Bool(FALSE)

\* the chains whose factories select parameters by network
ChainsWithNetworkParams == {"bitcoin", "tron", "cardano"}

\* C1 (amended): network separation holds for the chains whose address
\* parameters depend on the network: Bitcoin (every address type), TRON and
\* Cardano (every address type).
C1_NetworkSeparationByParams ==
  (UneditedFromKey /\ OtherNetwork /\ input.chain \in ChainsWithNetworkParams)
    => ret = Bool(FALSE)

C1_Witness ==
  /\ UneditedFromKey
  /\ OtherNetwork
  /\ input.chain = "bitcoin"
  /\ input.type = "taproot"
  /\ input.options = "testnet"
  /\ callee.network = "mainnet"
  /\ ret = Bool(FALSE)

BySegWit ==
  /\ op = "validateAddress"
  /\ callee.name = "bitcoin"
  /\ StartsWith(held.text, BitcoinParams(callee.network).hrpSegWit \o <<"1">>)

\* C2: SegWit validation accepts an address only if its decoded witness
\* program is exactly 20 or 32 bytes when the witness version is 0 and exactly
\* 32 bytes when the witness version is 1.
C2_WitnessGating ==
  (BySegWit /\ ret = Bool(TRUE)) =>
    LET decoded == bech32DecodeUnsafe(held.text)
        program == fromWordsUnsafe(Tail(decoded.words))
    IN /\ decoded # Undefined
       /\ Len(decoded.words) > 0
       /\ program # Undefined
       /\ \/ decoded.words[1] = 0 /\ Len(program.v) \in {20, 32}
          \/ decoded.words[1] = 1 /\ Len(program.v) = 32

ReplacedOneChar ==
  /\ op = "validateAddress"
  /\ input.kind = "key"
  /\ held.edit.kind = "replace"
  /\ PluginValidateAddress(callee, held.gen) = Bool(TRUE)

C7_ValidationNeverRaises ==
  /\ op = "validateAddress" => ret \in {Bool(TRUE), Bool(FALSE)}
  /\ op = "parseBIP44Path" => ret.t \in {"record", "undefined"}

C7_Witness ==
  /\ op = "validateAddress"
  /\ callee.name = "solana"
  /\ base58Decode(held.text) = Throw
  /\ ret = Bool(FALSE)

\* an address returned by getAddress of a Bitcoin instance, handed unchanged to
\* validateAddress of an instance built with the same options
BitcoinRoundTrip ==
  /\ UneditedFromKey
  /\ input.chain = "bitcoin"
  /\ input.key.curve = "secp256k1"
  /\ callee = bitcoin(input.options)

\* C11: for a Bitcoin instance on mainnet or on testnet and any secp256k1
\* public key, validateAddress(getAddress(key, t)) is true for every address
\* type t in {legacy, p2sh, segwit, p2wsh, taproot}.
C11_GeneratedBitcoinValidates == BitcoinRoundTrip => ret = Bool(TRUE)

C11_Witness ==
  /\ BitcoinRoundTrip
  /\ input.options = "testnet"
  /\ input.type = "legacy"
  /\ held.text[1] \in {"m", "n"}
  /\ ret = Bool(TRUE)

\* the words of a Bech32 string: its characters between the separator and the
\* six checksum characters
Bech32Words(text) ==
  LET data == SliceFrom(text, LastIndexOf(text, "1"))
  IN Listed([i \in 1..(Len(data) - 6) |-> IndexOf(Bech32Alphabet, data[i]) - 1])

\* C12: a SegWit address returned by getAddress carries the Bech32 checksum
\* (constant 1) when its witness version is 0 and the Bech32m checksum
\* (constant 0x2bc830a3 of BIP-350) when its witness version is 1 or higher,
\* so a taproot address carries a Bech32m checksum.
C12_ChecksumVariant ==
  (op = "getAddress" /\ input.chain = "bitcoin" /\ input.type \in {"segwit", "p2wsh", "taproot"})
    => LET words == Bech32Words(ret.v)
       IN Str(SliceFrom(ret.v, Len(ret.v) - 6))
            = bechChecksum(BitcoinParams(callee.network).hrpSegWit, words,
                           IF words[1] = 0 THEN BECH32_CONST ELSE 734539939)

\* C13: every wallet returned by generateWallet(options, addressType), for
\* every plugin and every address type, has
\* address = plugin.getAddress(keys.public, addressType).
C13_WalletAddress ==
  (op = "generateWallet" /\ ret # Throw)
    => Str(ret.address) = PluginGetAddress(callee.blockchain, ret.keys.public, input.type)

C13_Witness ==
  /\ op = "generateWallet"
  /\ ret # Throw
  /\ input.chain = "bitcoin"
  /\ input.type = "p2sh"
  /\ input.options = "testnet"
  /\ ret.address[1] = "2"
  /\ ret.keys.public.len = UncompressedLen

\* C14: the facade returned by useBlockchain(plugin) has each optional member
\* (validateAddress, signMessage, verifyMessage) exactly when the plugin
\* implements it, and calling it on the facade gives the plugin's result.
C14_FacadeCapabilities ==
  op = "member" =>
    /\ callee.members \cap OptionalCapabilities = Implements(callee.blockchain)
    /\ held.call.member \in Implements(callee.blockchain)
         => ret = PluginCall(callee.blockchain, held.call)

LegalKeyLength(key) ==
  IF key.curve = "ed25519" THEN key.len = Ed25519KeyLen
  ELSE key.len \in {CompressedLen, UncompressedLen}

\* C15: getAddress of every plugin raises, instead of returning an address,
\* when the public key's byte length is not legal for the plugin's curve (32
\* bytes for ed25519; 33 or 65 bytes for secp256k1).
C15_MalformedKeyRaises ==
  (op = "getAddress" /\ ~LegalKeyLength(input.key)) => ret = Throw

\* C20: every key pair returned by generateKeys(options), and the key pair in
\* every wallet returned by generateWallet(options, addressType), has
\* keys.public = plugin.getKeyPublic(keys.private, options).
C20_KeyPairDerived ==
  (op \in {"generateKeys", "generateWallet"} /\ ret # Throw)
    => ret.keys.public = PluginGetKeyPublic(callee.blockchain, ret.keys.private, input.keyOptions)

C20_Witness ==
  /\ op = "generateKeys"
  /\ ret # Throw
  /\ input.chain = "sui"
  /\ input.keyOptions.scheme = "secp256k1"
  /\ ret.keys.public.curve = "secp256k1"

\* C19: decodeBase58Check(encodeBase58Check(payload)) is exactly payload, for
\* every payload made of a version byte followed by data.
C19_Base58CheckRoundTrip ==
  (op = "decodeBase58Check" /\ held.edit.kind = "none")
    => ret = [t |-> "bytes",
              v |-> createVersionedHash(Digest(Salt.hash160, input.id, input.len),
                                        input.version)]

C19_Witness ==
  /\ op = "decodeBase58Check"
  /\ held.edit.kind = "none"
  /\ input.version = 0
  /\ held.text[1] = "1"
  /\ ret # Throw
  /\ Len(ret.v) = Hash160Len + 1
  /\ ret.v[1] = 0

\* C16: after the module is loaded the registry is the mapping the module
\* built, whatever the library and its callers do: no chain name is added,
\* removed or bound to another factory.
C16_RegistryImmutable == blockchains = Registry(blockchains.frozen)

\* C17: the network parameters of an instance are those chosen from the
\* options the factory was called with: every getAddress and validateAddress
\* call on the instance uses them, whatever the caller did to the options
\* object afterwards and whatever other instances were constructed.
C17_ParamsFixedAtConstruction ==
  op \in {"instance.getAddress", "instance.validateAddress"}
    => callee.used = Plugin(input.chain, callee.instance.args)

C17_Witness ==
  /\ op = "instance.getAddress"
  /\ input.chain = "bitcoin"
  /\ input.type = "segwit"
  /\ Len(instances) = MaxInstances
  /\ callee.instance.args = "testnet"
  /\ callerOptions = "mainnet"
  /\ SubSeq(ret.v, 1, 2) = <<"t", "b">>

\* the result of the session's last call when that call is run alone: on a
\* newly made instance, or on its arguments only
AloneResult ==
  CASE op = "instance.getAddress" ->
         PluginGetAddress(Plugin(input.chain, callee.instance.args), input.key, input.type)
    [] op = "instance.validateAddress" ->
         PluginValidateAddress(Plugin(input.chain, callee.instance.args), held.text)
    [] op = "session.getBIP44Path" ->
         Str(getBIP44Path(callee.args.coinType, callee.args.account, callee.args.change,
                          callee.args.addressIndex))
    [] op = "session.parseBIP44Path" -> parseBIP44Path(callee.text)

C21_P2WSHDiffers ==
  (op = "getAddress" /\ input.chain = "bitcoin" /\ input.type = "p2wsh")
    => \E p2wpkhAddress \in {bitcoinGetAddress(callee, input.key, "segwit")} :
         /\ ret # p2wpkhAddress
         /\ Len(ret.v) > Len(p2wpkhAddress.v)
         /\ Len(fromWordsUnsafe(Tail(Bech32Words(ret.v))).v) = P2WSHLen

\* a segment that is decimal digits, with or without one apostrophe after them
DecimalSegment(seg) ==
  LET digits == IF EndsWith(seg, <<"'">>) THEN DropLast(seg, 1) ELSE seg
  IN Len(digits) > 0 /\ \A i \in 1..Len(digits) : IsDigit(digits[i])

\* a component that is an integer from 0 to 2^31 - 1
IndexInRange(x) == ~x.nan /\ NumGe(x, N(0)) /\ NumLt(x, HARDENED_OFFSET)

\* C22: parseBIP44Path returns undefined whenever one of the five segments is
\* not a non-negative decimal integer with at most one apostrophe after it,
\* and the coinType, account and addressIndex of every record it returns are
\* integers from 0 to 2^31 - 1.
C22_MalformedSegmentUndefined ==
  (op = "parseBIP44Path" /\ ret # Undefined) =>
    /\ \E segs \in {Split(SliceFrom(input.text, 2), "/")} :
         \A i \in 1..Len(segs) : DecimalSegment(segs[i])
    /\ IndexInRange(ret.coinType)
    /\ IndexInRange(ret.account)
    /\ IndexInRange(ret.addressIndex)

\* the chains whose factories keep the network only as a field
NetworkFreeChains == EvmChains \cup {"aptos", "solana", "sui"}

\* C23: for Ethereum, Base, Aptos, Solana and Sui the network option changes
\* only the reported network field: for the same public key the mainnet and
\* the testnet instance return the identical address, and validateAddress of
\* each of them accepts it.
C23_NetworkOnlyReported ==
  (UneditedFromKey /\ input.chain \in NetworkFreeChains /\ callee.name = input.chain)
    => /\ ret = Bool(TRUE)
       /\ Str(held.text) = PluginGetAddress(callee, input.key, input.type)
       /\ callee = [name |-> input.chain, network |-> callee.network]

C23_Witness ==
  /\ UneditedFromKey
  /\ input.chain = "aptos"
  /\ input.options = "testnet"
  /\ callee.name = "aptos"
  /\ callee.network = "mainnet"
  /\ ret = Bool(TRUE)

\* C24: validateAddressHex(address, {prefix, length, caseSensitive}) is true
\* exactly when address starts with the given prefix, the remainder has exactly
\* length characters and each of them is a hex digit (a lowercase one when
\* caseSensitive is true), for every option value the caller supplies,
\* length 0 and the empty prefix included.
C24_HexExactly ==
  op = "validateAddressHex" =>
    \E rest \in {SliceFrom(held.text, Len(callee.options.prefix))} :
      ret = Bool(/\ StartsWith(held.text, callee.options.prefix)
                 /\ Len(rest) = callee.options.length
                 /\ \A i \in 1..Len(rest) :
                      IF callee.options.caseSensitive
                      THEN IndexOf(HexDigits, rest[i]) > 0
                      ELSE IsHexChar(rest[i]))

\* C25: every string getBIP44Path or getBlockchainPath returns, for any
\* arguments, is a well-formed BIP44 path: purpose, coinType and account carry
\* the hardened mark, change is 0 or 1, change and addressIndex carry no
\* hardened mark and are below 2^31, so parseBIP44Path accepts the string.
C25_PathWellFormed ==
  op \in {"getBIP44PathOfNumbers", "getBlockchainPath"} =>
    \E segs \in {Split(SliceFrom(ret.v, 2), "/")} :
      /\ Len(segs) = 5
      /\ \A i \in 1..3 : EndsWith(segs[i], <<"'">>)
      /\ segs[4] \in {<<"0">>, <<"1">>}
      /\ ~HardenedSeg(segs[5])
      /\ parseBIP44Path(ret.v) # Undefined

\* C26: for a TRON instance on mainnet or on testnet and any secp256k1 public
\* key, validateAddress(getAddress(key)) is true: the prefix character the
\* validator requires for the network is the first character of every address
\* encoded with the version byte of that network.
C26_TronRoundTrip ==
  (UneditedFromKey /\ input.chain = "tron" /\ callee = tron(input.options))
    => /\ ret = Bool(TRUE)
       /\ <<held.text[1]>> = TronParams(callee.network).prefixChar

\* C27: for a Cardano instance on mainnet or on testnet, any ed25519 public
\* key and every address type, validateAddress(getAddress(key, type)) is true:
\* the validator strips exactly the prefix getAddress put in front and
\* recovers the 28-byte key hash.
C27_CardanoRoundTrip ==
  (UneditedFromKey /\ input.chain = "cardano" /\ callee = cardano(input.options))
    => ret = Bool(TRUE)

\* C28: a Bitcoin instance constructed with a network value that is neither
\* 'mainnet' nor 'testnet' accepts every address it generates, of every
\* address type, as a mainnet instance does.
C28_OtherNetworkConsistent ==
  (op = "validateOwnAddress" /\ input.chain = "bitcoin"
     /\ input.options \notin {"mainnet", "testnet"})
    => /\ ret = Bool(TRUE)
       /\ ret = bitcoinValidateAddress(bitcoin("mainnet"), held.text)

\* C29: a Sui wallet generated through the facade with the key option
\* scheme = 'secp256k1' has an address derived with the secp256k1 scheme flag
\* 0x01, the flag of the curve of its public key; the ed25519 flag 0x00 is
\* applied only to ed25519 public keys.
C29_SuiFlagMatchesKey ==
  (op = "generateWallet" /\ input.chain = "sui" /\ ret # Throw)
    => (input.keyOptions.scheme = "secp256k1"
          => /\ ret.keys.public.curve = "secp256k1"
             /\ Str(ret.address) = suiGetAddress(ret.keys.public, "secp256k1"))

\* C30: validateBase58Check accepts every correctly checksummed Base58Check
\* string whose payload has the expected version byte and exactly
\* expectedLength bytes, for every expectedLength the caller passes: the check
\* of 26 to 35 characters rejects no valid encoding of such a payload.
C30_AcceptsEveryLength ==
  (/\ op = "validateBase58CheckOfLength"
   /\ callee.bytesVersion = input.version
   /\ callee.expectedLength = input.len + 1)
    => ret = Bool(TRUE)

====
